---------------------------- MODULE Spec2Model ----------------------------
(***************************************************************************)
(* A state-machine model of the AREDN network monitor (app.py,             *)
(* scanner.py, rf_stats.py, database.py).                                  *)
(*                                                                         *)
(* The process runs under eventlet (app.py:8-9): every handler, scheduler  *)
(* job and background task is a green thread, and control changes hands    *)
(* only where the code blocks (socketio.sleep, an HTTP request, a ping     *)
(* subprocess).  Each action below is therefore the stretch of code        *)
(* between two such blocking points.  sqlite3 calls do not yield.          *)
(*                                                                         *)
(* The subsystems own disjoint state and are given one specification      *)
(* each: SpecScan (scan triggers), SpecIperf (throughput queue),           *)
(* SpecPing (live ping sessions, FairSpecPing with fairness of the loops), *)
(* SpecLinks (the link rows of the store), SpecCrawl (one discovery run),  *)
(* SpecNodes (node rows and both sweeps), SpecPingNode and SpecRfTest      *)
(* (latency probes), SpecUpsert and SpecNodeFields (node fields),          *)
(* SpecServices (service rows), SpecSettings and SpecStartup (settings     *)
(* rows and the scan job), SpecRestore (link events over a swept store)    *)
(* and SpecRun (one scan from crawl to reconciliation).                    *)
(***************************************************************************)
EXTENDS Integers, Sequences, FiniteSets, TLC

(***************************************************************************)
(* Program constants.                                                      *)
(***************************************************************************)
MIN_SCAN_GAP == 10

LINK_TIMEOUT == 300

LINK_REMOVE_AFTER == 600

\* config.QUALITY_THRESHOLD_IPERF
QUALITY_THRESHOLD_IPERF == 50

POLL_INTERVAL == 60

(***************************************************************************)
(* Bounds of the model.                                                    *)
(***************************************************************************)
MaxScanTasks == 2

MaxScanTime == 20

MaxIperfCalls == 2

MaxManualTests == 1

MaxLoops == 2

MaxTime == 1210

ScanTasks == 1..MaxScanTasks

ScanTickSteps == {5, 10}

IperfCalls == 1..MaxIperfCalls

ManualTests == 1..MaxManualTests

Pairs == {<<"alpha", "bravo">>, <<"bravo", "alpha">>}

Priorities == {1, 5}

Clients == {"c1", "c2"}

\* What a start_node_ping event may name: stored nodes with an address, a
\* stored node without one, an unknown node, and no node at all ("").
StartInputs == {"alpha", "bravo", "charlie", "ghost", ""}

LinkKeys == {<<"alpha", "bravo">>, <<"bravo", "alpha">>}

\* The node names of the modelled mesh, and every (source, target) pair a
\* link row can have.
NodeNames == {"alpha", "bravo", "charlie", "delta"}

StoreKeys == {k \in NodeNames \X NodeNames : k[1] # k[2]}

LinkTickSteps == {LINK_TIMEOUT, LINK_TIMEOUT + 1}

\* Python's None and a present value, as sequences of length 0 and 1.
None == <<>>

Some(x) == <<x>>

VARIABLES
    now,                  \* datetime.now(), in seconds
    \* ---- app.py: scan_state and the scan runs
    is_scanning,          \* scan_state['is_scanning']
    last_scan_finished,   \* scan_state['last_scan_finished']: None or Some(t)
    scanPc,               \* position of each scheduled_scan invocation
    scanKind,             \* what triggered it: "job", "api" or "socket"
    scanWake,             \* when its socketio.sleep(wait_time) ends
    scan_emit,            \* last notification or reply of the scan code
    \* ---- rf_stats.py: the throughput queue
    iperf_queue,          \* deque of [source, target, priority]
    iperf_running,        \* the running flag
    iperfPc,              \* position of each process_iperf_queue call
    iperfItem,            \* its test_item: None or Some(item)
    manualPc,             \* position of each manual type=iperf request
    iperf_log,            \* last status emitted or logged by the queue code
    \* ---- app.py: live ping sessions
    active_ping_sessions, \* sid -> None or Some([node, session_id])
    ping_session_counter, \* ping_session_counter
    loops,                \* the ping_loop tasks launched so far
    connected,            \* sid -> whether the client is connected
    handler_error,        \* a session handler raised (KeyError)
    ping_emit,            \* last event emitted by the session code
    \* ---- database.py: link rows; scanner.py: update_link_statuses
    links,                \* (source, target) -> None or Some(row)
    recPc,                \* position of update_link_statuses
    dropped_links,        \* its would-transition list
    dropped_at,           \* history: when a row's status was set to dropped
    \* ---- database.py: node rows; scanner.py: update_node_statuses
    nodes,                \* name -> None or Some(row)
    nodePc,               \* position of update_node_statuses
    inactive_nodes,       \* its would-transition list
    \* ---- scanner.py: one run of discover_network
    network,              \* the mesh as it answers during the run
    max_depth,            \* max_depth
    crawlPc,              \* position of the run
    cur,                  \* the (url, depth) whose fetch is in flight
    visited_urls,         \* visited_urls
    visited_nodes,        \* visited_nodes
    queue,                \* queue: sequence of [url, depth]
    nodes_found,          \* nodes_found
    links_found,          \* links_found
    max_depth_reached,    \* max_depth_reached
    errors,               \* errors
    all_events,           \* all_events
    fetch_log,            \* the requests fetch_node_info has sent
    \* ---- rf_stats.py: latency probes; app.py: the manual link test
    probe_call,           \* arguments and environment of the last ping_node call
    probe_result,         \* what it returned: None or Some(record)
    rf_call,              \* the last manual type=ping test and what it met
    rf_reply,             \* the reply of that request
    link_history,         \* link_history rows with a latency sample
    \* ---- database.py: the quality column of the RF link rows
    link_quality,         \* (source, target) -> None or Some(quality)
    \* ---- database.py: the columns of one node row
    node_record,          \* None or Some(row)
    upsert_args,          \* the arguments of the last upsert_node call
    upsert_count,         \* the upsert_node calls made for the row
    \* ---- database.py: the services rows of one node
    services,             \* the names of the stored services
    service_report,       \* the services_local list applied last
    services_seen,        \* what the last GET /api/node/<name> read
    report_count,         \* the reports applied to the node
    \* ---- database.py: the settings rows; app.py: api_update_settings
    settings,             \* key -> None or Some(value text)
    scan_job,             \* the interval of the network_scan job, if scheduled
    settings_request,     \* the body of the last POST /api/settings
    settings_reply,       \* how that request ended
    settings_count,       \* the POST /api/settings requests served
    \* ---- scanner.py: one run_scan seen from the store
    runPc,                \* "idle", or "crawling" inside discover_network
    observed              \* the nodes and links the run's crawl has stored

scanVars == <<is_scanning, last_scan_finished, scanPc, scanKind, scanWake, scan_emit>>

iperfVars == <<iperf_queue, iperf_running, iperfPc, iperfItem, manualPc, iperf_log>>

pingVars == <<active_ping_sessions, ping_session_counter, loops, connected,
              handler_error, ping_emit>>

linkVars == <<links, recPc, dropped_links, dropped_at>>

nodeVars == <<nodes, nodePc, inactive_nodes>>

crawlVars == <<network, max_depth, crawlPc, cur, visited_urls, visited_nodes,
               queue, nodes_found, links_found, max_depth_reached, errors,
               all_events, fetch_log>>

probeVars == <<probe_call, probe_result, rf_call, rf_reply, link_history>>

qualityVars == <<link_quality>>

upsertVars == <<node_record, upsert_args, upsert_count>>

serviceVars == <<services, service_report, services_seen, report_count>>

settingVars == <<settings, scan_job, settings_request, settings_reply,
                 settings_count>>

runVars == <<runPc, observed>>

vars == <<now, scanVars, iperfVars, pingVars, linkVars, nodeVars, crawlVars,
          probeVars, qualityVars, upsertVars, serviceVars, settingVars, runVars>>

(***************************************************************************)
(* Initial state: the module-level globals of app.py and rf_stats.py and   *)
(* an empty links table.                                                   *)
(***************************************************************************)
InitScan ==
    /\ is_scanning = FALSE
    /\ last_scan_finished = None
    /\ scanPc = [t \in ScanTasks |-> "idle"]
    /\ scanKind = [t \in ScanTasks |-> "job"]
    /\ scanWake = [t \in ScanTasks |-> 0]
    /\ scan_emit = "none"

InitIperf ==
    /\ iperf_queue = <<>>
    /\ iperf_running = FALSE
    /\ iperfPc = [c \in IperfCalls |-> "idle"]
    /\ iperfItem = [c \in IperfCalls |-> None]
    /\ manualPc = [m \in ManualTests |-> "idle"]
    /\ iperf_log = "none"

InitPing ==
    /\ active_ping_sessions = [c \in Clients |-> None]
    /\ ping_session_counter = 0
    /\ loops = <<>>
    /\ connected = [c \in Clients |-> TRUE]
    /\ handler_error = FALSE
    /\ ping_emit = "none"

InitLinks ==
    /\ links = [k \in StoreKeys |-> None]
    /\ recPc = "idle"
    /\ dropped_links = {}
    /\ dropped_at = [k \in StoreKeys |-> None]

InitNodes ==
    /\ nodes = [n \in NodeNames |-> None]
    /\ nodePc = "idle"
    /\ inactive_nodes = {}

InitCrawl ==
    /\ network = None
    /\ max_depth = 0
    /\ crawlPc = "idle"
    /\ cur = None
    /\ visited_urls = {}
    /\ visited_nodes = {}
    /\ queue = <<>>
    /\ nodes_found = 0
    /\ links_found = 0
    /\ max_depth_reached = 0
    /\ errors = <<>>
    /\ all_events = <<>>
    /\ fetch_log = <<>>

InitQuality ==
    link_quality = [pair \in Pairs |-> None]

InitUpsert ==
    /\ node_record = None
    /\ upsert_args = None
    /\ upsert_count = 0

InitServices ==
    /\ services = {}
    /\ service_report = None
    /\ services_seen = None
    /\ report_count = 0

\* The settings rows api_update_settings writes and reads back.
SettingKeys == {"max_depth", "auto_scan", "poll_interval"}

InitSettings ==
    /\ settings = [key \in SettingKeys |-> None]
    /\ scan_job = Some(POLL_INTERVAL)
    /\ settings_request = None
    /\ settings_reply = "none"
    /\ settings_count = 0

InitProbe ==
    /\ probe_call = None
    /\ probe_result = None
    /\ rf_call = None
    /\ rf_reply = None
    /\ link_history = <<>>

InitRun ==
    /\ runPc = "idle"
    /\ observed = [nodes |-> {}, links |-> {}]

Init ==
    /\ now = 0
    /\ InitScan
    /\ InitIperf
    /\ InitPing
    /\ InitLinks
    /\ InitNodes
    /\ InitCrawl
    /\ InitProbe
    /\ InitQuality
    /\ InitUpsert
    /\ InitServices
    /\ InitSettings
    /\ InitRun

(***************************************************************************)
(* SCAN RUNS (app.py scheduled_scan and its three triggers)                *)
(***************************************************************************)

\* A scan body is between `is_scanning = True` and its finally block.
ScanRunning(t) == scanPc[t] \in {"discover", "reconcile"}

\* What the scan code leaves alone.
ScanFrame == UNCHANGED <<now, iperfVars, pingVars, linkVars, nodeVars, crawlVars, probeVars, qualityVars, upsertVars, serviceVars, settingVars, runVars>>

\* The periodic job: job_defaults max_instances = 1 lets APScheduler start
\* the job only while no earlier instance of it is still executing.
periodic_trigger(t) ==
    /\ ScanFrame
    /\ scanPc[t] = "idle"
    /\ \A u \in ScanTasks : scanKind[u] = "job" => scanPc[u] = "idle"
    /\ scanPc' = [scanPc EXCEPT ![t] = "start"]
    /\ scanKind' = [scanKind EXCEPT ![t] = "job"]
    /\ UNCHANGED <<is_scanning, last_scan_finished, scanWake, scan_emit>>

\* POST /api/scan: 409 while is_scanning, else a background scheduled_scan.
api_trigger_scan(t) ==
    /\ ScanFrame
    /\ scanPc[t] = "idle"
    /\ IF is_scanning
       THEN /\ scan_emit' = "409"
            /\ UNCHANGED <<scanPc, scanKind>>
       ELSE /\ scanPc' = [scanPc EXCEPT ![t] = "start"]
            /\ scanKind' = [scanKind EXCEPT ![t] = "api"]
            /\ scan_emit' = "scan_started_reply"
    /\ UNCHANGED <<is_scanning, last_scan_finished, scanWake>>

\* The 'request_scan' socket event.
handle_request_scan(t) ==
    /\ ScanFrame
    /\ scanPc[t] = "idle"
    /\ IF ~is_scanning
       THEN /\ scanPc' = [scanPc EXCEPT ![t] = "start"]
            /\ scanKind' = [scanKind EXCEPT ![t] = "socket"]
            /\ scan_emit' = "scan_acknowledged_started"
       ELSE /\ scan_emit' = "scan_acknowledged_in_progress"
            /\ UNCHANGED <<scanPc, scanKind>>
    /\ UNCHANGED <<is_scanning, last_scan_finished, scanWake>>

\* elapsed < MIN_SCAN_GAP, with elapsed measured from last_scan_finished.
MustWaitGap ==
    /\ last_scan_finished # None
    /\ now - last_scan_finished[1] < MIN_SCAN_GAP

\* scheduled_scan from its entry to its first blocking point: the return
\* when a scan is in progress, the sleep for the rest of the gap, or, with
\* no gap to wait out, `is_scanning = True` and the start of run_scan.
scheduled_scan_begin(t) ==
    /\ ScanFrame
    /\ scanPc[t] = "start"
    /\ IF is_scanning
       THEN /\ scanPc' = [scanPc EXCEPT ![t] = "idle"]
            /\ UNCHANGED <<is_scanning, scanWake, scan_emit>>
       ELSE IF MustWaitGap
            THEN /\ scanPc' = [scanPc EXCEPT ![t] = "sleep"]
                 /\ scanWake' = [scanWake EXCEPT
                                   ![t] = last_scan_finished[1] + MIN_SCAN_GAP]
                 /\ UNCHANGED <<is_scanning, scan_emit>>
            ELSE /\ is_scanning' = TRUE
                 /\ scan_emit' = "scan_started"
                 /\ scanPc' = [scanPc EXCEPT ![t] = "discover"]
                 /\ UNCHANGED scanWake
    /\ UNCHANGED <<last_scan_finished, scanKind>>

\* socketio.sleep(wait_time) returns: `is_scanning = True`, run_scan starts.
scheduled_scan_wake(t) ==
    /\ ScanFrame
    /\ scanPc[t] = "sleep"
    /\ now >= scanWake[t]
    /\ is_scanning' = TRUE
    /\ scan_emit' = "scan_started"
    /\ scanPc' = [scanPc EXCEPT ![t] = "discover"]
    /\ UNCHANGED <<last_scan_finished, scanKind, scanWake>>

\* run_scan: discover_network returns, the reconciliation sweeps start.
run_scan_discovered(t) ==
    /\ ScanFrame
    /\ scanPc[t] = "discover"
    /\ scanPc' = [scanPc EXCEPT ![t] = "reconcile"]
    /\ UNCHANGED <<is_scanning, last_scan_finished, scanKind, scanWake, scan_emit>>

\* The finally block of scheduled_scan.
scan_finally(t) ==
    /\ is_scanning' = FALSE
    /\ last_scan_finished' = Some(now)
    /\ scanPc' = [scanPc EXCEPT ![t] = "idle"]
    /\ UNCHANGED <<scanKind, scanWake>>

\* run_scan returned: notifications, scan_complete, then the finally block.
scheduled_scan_complete(t) ==
    /\ ScanFrame
    /\ scanPc[t] = "reconcile"
    /\ scan_emit' = "scan_complete"
    /\ scan_finally(t)

\* Faulty variant of scheduled_scan_error: the exception leaves
\* scheduled_scan without passing through the finally block.
scheduled_scan_error_propagates(t) ==
    /\ ScanFrame
    /\ ScanRunning(t)
    /\ scan_emit' = "scan_error"
    /\ scanPc' = [scanPc EXCEPT ![t] = "idle"]
    /\ UNCHANGED <<is_scanning, last_scan_finished, scanKind, scanWake>>

\* run_scan (or an emit) raised: scan_error, then the finally block.
scheduled_scan_error(t) ==
    /\ ScanFrame
    /\ ScanRunning(t)
    /\ scan_emit' = "scan_error"
    /\ scan_finally(t)

TickScan(d) ==
    /\ now + d <= MaxScanTime
    /\ now' = now + d
    /\ UNCHANGED <<scanVars, iperfVars, pingVars, linkVars, nodeVars, crawlVars, probeVars, qualityVars, upsertVars, serviceVars, settingVars, runVars>>

NextScan ==
    \/ \E t \in ScanTasks : periodic_trigger(t)
    \/ \E t \in ScanTasks : api_trigger_scan(t)
    \/ \E t \in ScanTasks : handle_request_scan(t)
    \/ \E t \in ScanTasks : scheduled_scan_begin(t)
    \/ \E t \in ScanTasks : scheduled_scan_wake(t)
    \/ \E t \in ScanTasks : run_scan_discovered(t)
    \/ \E t \in ScanTasks : scheduled_scan_complete(t)
    \/ \E t \in ScanTasks : scheduled_scan_error(t)
    \/ \E d \in ScanTickSteps : TickScan(d)

SpecScan == Init /\ [][NextScan]_vars

\* C1: no two scan runs (scheduled_scan bodies between setting is_scanning
\* and their finally block) execute at the same time.
C1_NoOverlappingScans ==
    Cardinality({t \in ScanTasks : ScanRunning(t)}) <= 1

\* C14: the reconciliation sweeps of one scan never execute while the
\* discovery crawl of any scan is still running.
C14_NoSweepDuringCrawl ==
    \A t, u \in ScanTasks :
        ~(scanPc[t] = "reconcile" /\ scanPc[u] = "discover")

\* C15: a scan run starts (enters run_scan) only when at least MIN_SCAN_GAP
\* has passed since the most recent completion of any scan run; a trigger
\* that finds less than the gap elapsed sleeps until the gap is over
\* instead of starting.
C15_StartsAfterGap ==
    [][\A t \in ScanTasks :
         /\ (scanPc[t] # "discover" /\ scanPc'[t] = "discover") =>
               \/ last_scan_finished = None
               \/ now - last_scan_finished[1] >= MIN_SCAN_GAP
         /\ (scanPc[t] = "start" /\ ~is_scanning /\ MustWaitGap
               /\ scanPc'[t] # "start") =>
               /\ scanPc'[t] = "sleep"
               /\ scanWake'[t] = last_scan_finished[1] + MIN_SCAN_GAP]_vars

\* C31: when run_scan raises, scheduled_scan emits scan_error and ends
\* (the task is idle again) with is_scanning false and last_scan_finished
\* set to the time of the failure; the flag is never true without a scan
\* body that will still reach its finally block, and a POST /api/scan that
\* follows the failure is accepted.
C31_FailedScanReleasesFlag ==
    /\ [][\A t \in ScanTasks :
            (ScanRunning(t) /\ scanPc'[t] = "idle" /\ scan_emit' # "scan_complete") =>
                /\ scan_emit' = "scan_error"
                /\ ~is_scanning'
                /\ last_scan_finished' = Some(now)]_vars
    /\ [](is_scanning => \E t \in ScanTasks : ScanRunning(t))
    /\ [][(scan_emit = "scan_error" /\ \E t \in ScanTasks : api_trigger_scan(t))
            => scan_emit' = "scan_started_reply"]_vars

\* C31 witness: a scan has failed after an earlier scan had completed; no
\* scan is running, the flag is clear and the completion time is that of
\* the failure.
C31_Witness ==
    /\ scan_emit = "scan_error"
    /\ ~is_scanning
    /\ last_scan_finished = Some(now)
    /\ now >= MIN_SCAN_GAP
    /\ \A t \in ScanTasks : scanPc[t] = "idle"

(***************************************************************************)
(* THROUGHPUT QUEUE (rf_stats.py) and the manual link test (app.py)        *)
(***************************************************************************)

\* What the throughput code leaves alone.
IperfFrame == UNCHANGED <<now, scanVars, pingVars, linkVars, nodeVars, crawlVars, probeVars, qualityVars, upsertVars, serviceVars, settingVars, runVars>>

\* Faulty variant of AlreadyQueued: only the newest entry is compared.
AlreadyQueuedLast(q, pair) ==
    /\ q # << >>
    /\ q[Len(q)].source = pair[1]
    /\ q[Len(q)].target = pair[2]

\* The duplicate scan of queue_iperf_test: a queued item with this pair.
AlreadyQueued(q, pair) ==
    \E i \in 1..Len(q) : q[i].source = pair[1] /\ q[i].target = pair[2]

\* The queue as the body of queue_iperf_test leaves it.
QueueAfter(q, pair, priority) ==
    IF AlreadyQueued(q, pair)
    THEN q
    ELSE Append(q, [source |-> pair[1], target |-> pair[2],
                    priority |-> priority])

\* queue_iperf_test, the whole body under iperf_lock.
queue_iperf_test(pair, priority) ==
    /\ IperfFrame
    /\ iperf_queue' = QueueAfter(iperf_queue, pair, priority)
    /\ UNCHANGED <<iperf_running, iperfPc, iperfItem, manualPc, iperf_log>>

\* The qualities a crawl stores for an RF link.
Qualities == {QUALITY_THRESHOLD_IPERF - 1, QUALITY_THRESHOLD_IPERF}

\* A crawl's upsert_link stores the quality the tracker reports for an RF
\* link.
store_link_quality(pair, quality) ==
    /\ UNCHANGED <<now, scanVars, iperfVars, pingVars, linkVars, nodeVars,
                   crawlVars, probeVars, upsertVars, serviceVars, settingVars, runVars>>
    /\ link_quality' = [link_quality EXCEPT ![pair] = Some(quality)]

\* get_rf_links: the RF link rows, ORDER BY source_node, target_node.
get_rf_links ==
    LET Stored(pair) == link_quality[pair] # None
    IN  SelectSeq(<< <<"alpha", "bravo">>, <<"bravo", "alpha">> >>, Stored)

\* `link.get('quality', 0) >= config.QUALITY_THRESHOLD_IPERF`
GoodEnough(quality) == quality >= QUALITY_THRESHOLD_IPERF

RECURSIVE QueueAllFrom(_, _, _)
\* The loop of queue_all_rf_links_for_iperf from the i-th RF link on.
QueueAllFrom(q, rf_links, i) ==
    IF i > Len(rf_links)
    THEN q
    ELSE QueueAllFrom(IF GoodEnough(link_quality[rf_links[i]][1])
                      THEN QueueAfter(q, rf_links[i], 5)
                      ELSE q,
                      rf_links, i + 1)

\* queue_all_rf_links_for_iperf: no call in it yields, so the loop is one
\* step.
queue_all_rf_links_for_iperf ==
    /\ IperfFrame
    /\ iperf_queue' = QueueAllFrom(iperf_queue, get_rf_links, 1)
    /\ UNCHANGED <<iperf_running, iperfPc, iperfItem, manualPc, iperf_log>>

\* sorted(iperf_queue, key=priority)[0]: sorted is stable, so the first
\* item of the lowest priority value.
FirstByPriority(q) ==
    CHOOSE i \in 1..Len(q) :
        \A j \in 1..Len(q) :
            \/ q[i].priority < q[j].priority
            \/ q[i].priority = q[j].priority /\ i <= j

\* deque.remove(item): the first equal item goes.
RemoveFirst(q, item) ==
    LET i == CHOOSE n \in 1..Len(q) :
                 q[n] = item /\ \A m \in 1..(n - 1) : q[m] # item
    IN  SubSeq(q, 1, i - 1) \o SubSeq(q, i + 1, Len(q))

\* A call of process_iperf_queue is made (the periodic task, or any caller).
process_iperf_queue_call(c) ==
    /\ IperfFrame
    /\ iperfPc[c] = "idle"
    /\ iperfPc' = [iperfPc EXCEPT ![c] = "called"]
    /\ UNCHANGED <<iperf_queue, iperf_running, iperfItem, manualPc, iperf_log>>

\* A call that has popped an entry and not yet released the flag.
IperfHolding(c) == iperfPc[c] \in {"popped", "testing"}

\* Faulty variant of IperfBusy: the running flag is never consulted.
IperfBusyUnchecked == FALSE

\* The `if iperf_running` test under the lock.
IperfBusy == iperf_running

\* The first `with iperf_lock` block: return when a test is running or the
\* queue is empty, else pop the entry and set the flag.
process_iperf_queue_enter(c) ==
    /\ IperfFrame
    /\ iperfPc[c] = "called"
    /\ IF IperfBusy
       THEN /\ iperfPc' = [iperfPc EXCEPT ![c] = "idle"]
            /\ iperf_log' = "already_running"
            /\ UNCHANGED <<iperf_queue, iperf_running, iperfItem>>
       ELSE IF iperf_queue = <<>>
            THEN /\ iperfPc' = [iperfPc EXCEPT ![c] = "idle"]
                 /\ iperf_log' = "queue_empty"
                 /\ UNCHANGED <<iperf_queue, iperf_running, iperfItem>>
            ELSE LET test_item == iperf_queue[FirstByPriority(iperf_queue)]
                 IN  /\ iperf_queue' = RemoveFirst(iperf_queue, test_item)
                     /\ iperf_running' = TRUE
                     /\ iperfItem' = [iperfItem EXCEPT ![c] = Some(test_item)]
                     /\ iperfPc' = [iperfPc EXCEPT ![c] = "popped"]
                     /\ UNCHANGED iperf_log
    /\ UNCHANGED manualPc

\* Faulty variant of FlagAfterFinally: the skip paths return before the
\* try block, so the finally block does not run for them.
FlagKeptOnSkip(path) == path \in {"no_ip", "quality_too_low"}

\* The flag as the finally block leaves it, whatever path led there.
FlagAfterFinally(path) == FALSE

\* The try block up to run_iperf_test: the target's address and the link's
\* quality are read from the store (has_ip, quality_ok); without an address
\* or with too low a quality the call returns through the finally block.
process_iperf_queue_gate(c, has_ip, quality_ok) ==
    /\ IperfFrame
    /\ iperfPc[c] = "popped"
    /\ IF ~has_ip
       THEN /\ iperf_log' = "no_ip"
            /\ iperf_running' = FlagAfterFinally("no_ip")
            /\ iperfPc' = [iperfPc EXCEPT ![c] = "idle"]
            /\ iperfItem' = [iperfItem EXCEPT ![c] = None]
       ELSE IF ~quality_ok
            THEN /\ iperf_log' = "quality_too_low"
                 /\ iperf_running' = FlagAfterFinally("quality_too_low")
                 /\ iperfPc' = [iperfPc EXCEPT ![c] = "idle"]
                 /\ iperfItem' = [iperfItem EXCEPT ![c] = None]
            ELSE /\ iperf_log' = "running"
                 /\ iperfPc' = [iperfPc EXCEPT ![c] = "testing"]
                 /\ UNCHANGED <<iperf_running, iperfItem>>
    /\ UNCHANGED <<iperf_queue, manualPc>>

\* run_iperf_test returned a result ("complete") or None ("failed"), or an
\* exception left the try block ("exception"); then the finally block.
process_iperf_queue_finish(c, outcome) ==
    /\ IperfFrame
    /\ iperfPc[c] = "testing"
    /\ iperf_log' = outcome
    /\ iperf_running' = FlagAfterFinally(outcome)
    /\ iperfPc' = [iperfPc EXCEPT ![c] = "idle"]
    /\ iperfItem' = [iperfItem EXCEPT ![c] = None]
    /\ UNCHANGED <<iperf_queue, manualPc>>

\* api_trigger_rf_test with type=iperf: run_iperf_test is called at once.
api_trigger_rf_test_iperf(m) ==
    /\ IperfFrame
    /\ manualPc[m] = "idle"
    /\ manualPc' = [manualPc EXCEPT ![m] = "testing"]
    /\ UNCHANGED <<iperf_queue, iperf_running, iperfPc, iperfItem, iperf_log>>

\* Its run_iperf_test returns and the request is answered.
api_trigger_rf_test_done(m) ==
    /\ IperfFrame
    /\ manualPc[m] = "testing"
    /\ manualPc' = [manualPc EXCEPT ![m] = "idle"]
    /\ UNCHANGED <<iperf_queue, iperf_running, iperfPc, iperfItem, iperf_log>>

\* The run_iperf_test calls in flight, from either caller.
TestsInFlight ==
    Cardinality({c \in IperfCalls : iperfPc[c] = "testing"})
      + Cardinality({m \in ManualTests : manualPc[m] = "testing"})

\* Faulty variant of QualityOk: the stored quality is not read again.
QualityUnchecked(c) == TRUE

\* `link and link.get('quality', 0) < config.QUALITY_THRESHOLD_IPERF` is
\* false for the entry call c has popped: the link has no row, or its stored
\* quality reaches the threshold.
QualityOk(c) ==
    \/ iperfItem[c] = None
    \/ LET link == link_quality[<<iperfItem[c][1].source, iperfItem[c][1].target>>]
       IN  link = None \/ ~(link[1] < QUALITY_THRESHOLD_IPERF)

NextIperf ==
    \/ \E pair \in Pairs, priority \in Priorities : queue_iperf_test(pair, priority)
    \/ \E pair \in Pairs, quality \in Qualities : store_link_quality(pair, quality)
    \/ queue_all_rf_links_for_iperf
    \/ \E c \in IperfCalls : process_iperf_queue_call(c)
    \/ \E c \in IperfCalls : process_iperf_queue_enter(c)
    \/ \E c \in IperfCalls, has_ip \in BOOLEAN :
         process_iperf_queue_gate(c, has_ip, QualityOk(c))
    \/ \E c \in IperfCalls, outcome \in {"complete", "failed", "exception"} :
         process_iperf_queue_finish(c, outcome)
    \/ \E m \in ManualTests : api_trigger_rf_test_iperf(m)
    \/ \E m \in ManualTests : api_trigger_rf_test_done(m)

SpecIperf == Init /\ [][NextIperf]_vars

\* C2: at most one call of process_iperf_queue is between popping an entry
\* and releasing the running flag, and a call made while a test is running
\* returns without popping an entry or starting a test.
C2_SingleFlightQueue ==
    /\ [](Cardinality({c \in IperfCalls : IperfHolding(c)}) <= 1)
    /\ [][\A c \in IperfCalls :
            (iperfPc[c] = "called" /\ iperf_running /\ iperfPc'[c] # "called")
                => /\ iperfPc'[c] = "idle"
                   /\ iperf_queue' = iperf_queue
                   /\ iperfItem'[c] = None]_vars

\* C2 witness: one call holds the flag with its test in flight while another
\* call has been made and entries are still queued.
C2_Witness ==
    \E c, d \in IperfCalls :
        /\ iperfPc[c] = "testing"
        /\ iperfPc[d] = "called"
        /\ iperf_queue # <<>>

\* C3: system-wide at most one run_iperf_test call is in flight, the queue
\* processor's and the manual link test's alike.
C3_OneTestSystemWide == TestsInFlight <= 1

\* C4 as stated: whenever any call of process_iperf_queue returns, the flag
\* is false, the early return under a running test included.
C4_FlagFalseOnEveryReturn ==
    [][\A c \in IperfCalls :
         (iperfPc[c] # "idle" /\ iperfPc'[c] = "idle") => ~iperf_running']_vars

\* C4 amended: whenever a call that popped an entry returns (success, probe
\* failure, no address, quality too low, exception) the flag is false, and
\* so it is on the return for an empty queue; the return made because
\* another call's test is running leaves the flag set.
C4_FlagFalseOnOwnReturn ==
    [][\A c \in IperfCalls :
         /\ (IperfHolding(c) /\ iperfPc'[c] = "idle") => ~iperf_running'
         /\ (iperfPc[c] = "called" /\ iperfPc'[c] = "idle")
                => iperf_running' = iperf_running]_vars

\* C4 witness: a call has returned through a skip path with the flag
\* released while another call is waiting to enter.
C4_Witness ==
    /\ iperf_log \in {"no_ip", "quality_too_low", "failed", "exception"}
    /\ ~iperf_running
    /\ \E c \in IperfCalls : iperfPc[c] = "called"

\* C25: the throughput queue never holds two entries of the same (source,
\* target) pair; a step that lengthens it appends entries of pairs that were
\* not queued; and queue_iperf_test for a pair that is queued leaves the
\* queue as it is.
C25_OneEntryPerPair ==
    /\ [](\A i, j \in 1..Len(iperf_queue) :
            (/\ iperf_queue[i].source = iperf_queue[j].source
             /\ iperf_queue[i].target = iperf_queue[j].target) => i = j)
    /\ [][Len(iperf_queue') > Len(iperf_queue) =>
            /\ SubSeq(iperf_queue', 1, Len(iperf_queue)) = iperf_queue
            /\ \A i \in (Len(iperf_queue) + 1)..Len(iperf_queue') :
                  ~AlreadyQueued(iperf_queue,
                                 <<iperf_queue'[i].source, iperf_queue'[i].target>>)]_vars
    /\ [][\A pair \in Pairs, priority \in Priorities :
            (AlreadyQueued(iperf_queue, pair) /\ queue_iperf_test(pair, priority))
               => iperf_queue' = iperf_queue]_vars

\* C25 witness: both pairs are queued while a call holds a popped entry, so
\* the pair of that entry was queued again after it was popped.
C25_Witness ==
    /\ Len(iperf_queue) = Cardinality(Pairs)
    /\ \E c \in IperfCalls :
          /\ IperfHolding(c)
          /\ AlreadyQueued(iperf_queue,
                           <<iperfItem[c][1].source, iperfItem[c][1].target>>)

\* The stored quality of the link of the entry call c has popped is below
\* the threshold.
QualityLow(c) ==
    LET link == link_quality[<<iperfItem[c][1].source, iperfItem[c][1].target>>]
    IN  link # None /\ link[1] < QUALITY_THRESHOLD_IPERF

\* C26: a call of process_iperf_queue goes on to run_iperf_test only when
\* the stored quality of the popped entry's link, read at that step, is not
\* below QUALITY_THRESHOLD_IPERF; with a lower quality the call returns
\* without a test and the entry, already taken off the queue, is not put
\* back.
C26_QualityRecheckedBeforeTest ==
    [][\A c \in IperfCalls :
         iperfPc[c] = "popped" =>
            /\ iperfPc'[c] = "testing" => ~QualityLow(c)
            /\ (QualityLow(c) /\ iperfPc'[c] # "popped") =>
                  /\ iperfPc'[c] = "idle"
                  /\ iperfItem'[c] = None
                  /\ iperf_queue' = iperf_queue
                  /\ iperf_log' \in {"quality_too_low", "no_ip"}
                  /\ TestsInFlight' = TestsInFlight]_vars

\* C26 witness: a call has just returned because the quality was too low,
\* the queue is empty and a stored quality is below the threshold.
C26_Witness ==
    /\ iperf_log = "quality_too_low"
    /\ iperf_queue = << >>
    /\ \A c \in IperfCalls : iperfPc[c] = "idle"
    /\ link_quality[<<"alpha", "bravo">>] = Some(QUALITY_THRESHOLD_IPERF - 1)
    /\ link_quality[<<"bravo", "alpha">>] = None

(***************************************************************************)
(* LIVE PING SESSIONS (app.py)                                             *)
(***************************************************************************)

\* What the session code leaves alone.
PingFrame == UNCHANGED <<now, scanVars, iperfVars, linkVars, nodeVars, crawlVars, probeVars, qualityVars, upsertVars, serviceVars, settingVars, runVars>>

\* database.get_node(name) as the session code uses it: the stored node's
\* ip (None for a node stored without one); "ghost" is not stored.
StoredNodes == {"alpha", "bravo", "charlie"}

\* Faulty variant of NodeHasIp: the address of the row is not looked at.
NodeHasIpUnchecked(name) == TRUE

NodeHasIp(name) == name \in {"alpha", "bravo"}

\* Faulty variant of NewSessionId: the counter is read without being advanced.
ReusedSessionId == ping_session_counter

\* ping_session_counter += 1; session_id = ping_session_counter
NewSessionId == ping_session_counter + 1

\* handle_start_node_ping: the two rejections, else a new token, the
\* session stored over any earlier one, ping_started, and the loop launched.
handle_start_node_ping(c, node) ==
    /\ PingFrame
    /\ connected[c]
    /\ IF node = ""
       THEN /\ ping_emit' = "ping_error"
            /\ UNCHANGED <<active_ping_sessions, ping_session_counter, loops>>
       ELSE IF ~(node \in StoredNodes /\ NodeHasIp(node))
            THEN /\ ping_emit' = "ping_error"
                 /\ UNCHANGED <<active_ping_sessions, ping_session_counter, loops>>
            ELSE /\ Len(loops) < MaxLoops
                 /\ ping_session_counter' = NewSessionId
                 /\ active_ping_sessions' =
                      [active_ping_sessions EXCEPT
                         ![c] = Some([node |-> node, session_id |-> NewSessionId])]
                 /\ ping_emit' = "ping_started"
                 /\ loops' = Append(loops, [sid |-> c,
                                            session_id |-> NewSessionId,
                                            pc |-> "check"])
    /\ UNCHANGED <<connected, handler_error>>

\* Faulty variant of SessionMatches: only the presence of a session is tested.
SessionPresent(i) == active_ping_sessions[loops[i].sid] # None

\* not (not current_session or current_session['session_id'] != session_id)
SessionMatches(i) ==
    /\ active_ping_sessions[loops[i].sid] # None
    /\ active_ping_sessions[loops[i].sid][1].session_id = loops[i].session_id

\* Faulty variant of StillActiveAfterPing: the result is published unchecked.
PublishUnchecked(i) == TRUE

\* The check at the top of the while loop.
StillActiveBeforePing(i) == SessionMatches(i)

\* The check after rf_stats.ping_node returned.
StillActiveAfterPing(i) == SessionMatches(i)

SetLoopPc(i, pc) == [loops EXCEPT ![i].pc = pc]

\* Top of the loop: leave when the session is not this loop's, else start
\* the probe (rf_stats.ping_node blocks).
ping_loop_check(i) ==
    /\ PingFrame
    /\ i \in DOMAIN loops
    /\ loops[i].pc = "check"
    /\ loops' = SetLoopPc(i, IF StillActiveBeforePing(i) THEN "probing" ELSE "done")
    /\ UNCHANGED <<active_ping_sessions, ping_session_counter, connected,
                   handler_error, ping_emit>>

\* The probe returned: check again, publish ping_result, start the sleep.
ping_loop_probed(i) ==
    /\ PingFrame
    /\ i \in DOMAIN loops
    /\ loops[i].pc = "probing"
    /\ IF StillActiveAfterPing(i)
       THEN /\ ping_emit' = "ping_result"
            /\ loops' = SetLoopPc(i, "sleeping")
       ELSE /\ loops' = SetLoopPc(i, "done")
            /\ UNCHANGED ping_emit
    /\ UNCHANGED <<active_ping_sessions, ping_session_counter, connected,
                   handler_error>>

\* socketio.sleep(1) returns.
ping_loop_wake(i) ==
    /\ PingFrame
    /\ i \in DOMAIN loops
    /\ loops[i].pc = "sleeping"
    /\ loops' = SetLoopPc(i, "check")
    /\ UNCHANGED <<active_ping_sessions, ping_session_counter, connected,
                   handler_error, ping_emit>>

\* del active_ping_sessions[sid]
DelSession(c) == [active_ping_sessions EXCEPT ![c] = None]

SidInSessions(c) == active_ping_sessions[c] # None

\* Faulty variant of DisconnectDeletes: the entry is deleted without the test.
DeleteUnguarded(c) == TRUE

\* `if sid in active_ping_sessions` of handle_stop_node_ping.
StopDeletes(c) == SidInSessions(c)

\* `if sid in active_ping_sessions` of handle_disconnect.
DisconnectDeletes(c) == SidInSessions(c)

\* The session table each handler leaves.
SessionsAfterStop(c) ==
    IF StopDeletes(c) THEN DelSession(c) ELSE active_ping_sessions

SessionsAfterDisconnect(c) ==
    IF DisconnectDeletes(c) THEN DelSession(c) ELSE active_ping_sessions

\* handle_stop_node_ping; a stop already received may be handled after the
\* client's disconnect.  del on an absent key raises KeyError.
handle_stop_node_ping(c) ==
    /\ PingFrame
    /\ active_ping_sessions' = SessionsAfterStop(c)
    /\ handler_error' = (handler_error \/ (StopDeletes(c) /\ ~SidInSessions(c)))
    /\ ping_emit' =
         IF StopDeletes(c) /\ SidInSessions(c)
         THEN "ping_stopped"
         ELSE ping_emit
    /\ UNCHANGED <<ping_session_counter, loops, connected>>

\* handle_disconnect.
handle_disconnect(c) ==
    /\ PingFrame
    /\ connected[c]
    /\ connected' = [connected EXCEPT ![c] = FALSE]
    /\ active_ping_sessions' = SessionsAfterDisconnect(c)
    /\ handler_error' = (handler_error \/ (DisconnectDeletes(c) /\ ~SidInSessions(c)))
    /\ UNCHANGED <<ping_session_counter, loops, ping_emit>>

ping_loop_step(i) ==
    \/ ping_loop_check(i)
    \/ ping_loop_probed(i)
    \/ ping_loop_wake(i)

NextPing ==
    \/ \E c \in Clients, node \in StartInputs : handle_start_node_ping(c, node)
    \/ \E i \in 1..MaxLoops : ping_loop_check(i)
    \/ \E i \in 1..MaxLoops : ping_loop_probed(i)
    \/ \E i \in 1..MaxLoops : ping_loop_wake(i)
    \/ \E c \in Clients : handle_stop_node_ping(c)
    \/ \E c \in Clients : handle_disconnect(c)

SpecPing == Init /\ [][NextPing]_vars

\* Every probe and every wait completes, and a runnable loop gets to run.
FairSpecPing == SpecPing /\ \A i \in 1..MaxLoops : WF_vars(ping_loop_step(i))

\* The loops of client c that are running and pass the token check.
ActiveLoops(c) ==
    {i \in DOMAIN loops :
        loops[i].sid = c /\ loops[i].pc # "done" /\ SessionMatches(i)}

\* The loops of client c that have not exited.
RunningLoops(c) == {i \in DOMAIN loops : loops[i].sid = c /\ loops[i].pc # "done"}

\* C5: after a second start by the same client the loop of the first start
\* exits at its next token check, wherever it was, and exactly one loop of
\* the client (the one bound to the latest token) stays active.
C5_OneActiveLoopPerClient ==
    /\ [](\A c \in Clients :
            Cardinality(ActiveLoops(c)) = IF SidInSessions(c) THEN 1 ELSE 0)
    /\ [][\A i \in DOMAIN loops :
            (/\ ~SessionMatches(i)
             /\ loops[i].pc \in {"check", "probing"}
             /\ loops'[i].pc # loops[i].pc) => loops'[i].pc = "done"]_vars

\* C5 witness: a client started twice for different nodes; its first loop
\* has exited and its second loop is the only one running.
C5_Witness ==
    \E c \in Clients : \E i, j \in DOMAIN loops :
        /\ i < j
        /\ loops[i].sid = c /\ loops[j].sid = c
        /\ loops[i].pc = "done"
        /\ RunningLoops(c) = {j}
        /\ ActiveLoops(c) = {j}

\* C6: a loop publishes ping_result only while the session stored for its
\* client carries the loop's own token.
C6_PublishOnlyWithOwnToken ==
    [][\A i \in DOMAIN loops :
         (loops[i].pc = "probing" /\ loops'[i].pc = "sleeping")
            => /\ SessionMatches(i)
               /\ ping_emit' = "ping_result"]_vars

\* C6 witness: after results were published, a loop's session was replaced
\* or deleted while its probe was in progress; an earlier loop has exited.
C6_Witness ==
    \E i, j \in DOMAIN loops :
        /\ i # j
        /\ loops[i].pc = "done"
        /\ loops[j].pc = "probing"
        /\ ~SessionMatches(j)
        /\ ping_emit = "ping_result"

\* C7: stop and disconnect for a client, in either order, complete without
\* error and leave the client's session entry absent, and disconnect has
\* the same effect on the session table as stop.
C7_StopDisconnectSafe ==
    /\ [](\A c \in Clients : SessionsAfterDisconnect(c) = SessionsAfterStop(c))
    /\ [](~handler_error)
    /\ [][\A c \in Clients :
            (handle_stop_node_ping(c) \/ handle_disconnect(c))
                => active_ping_sessions'[c] = None]_vars

\* C7 witness: a client with a session was stopped and then disconnected.
C7_Witness ==
    \E c \in Clients :
        /\ ~connected[c]
        /\ ping_emit = "ping_stopped"
        /\ active_ping_sessions[c] = None
        /\ RunningLoops(c) # {}

LoopStale(i) == i \in DOMAIN loops /\ ~SessionMatches(i)

LoopDone(i) == i \in DOMAIN loops /\ loops[i].pc = "done"

\* C8: every loop whose token is no longer the stored token of its client
\* eventually terminates, given that probes and waits complete.
C8_StaleLoopTerminates ==
    \A i \in 1..MaxLoops : LoopStale(i) ~> LoopDone(i)

\* C8 witness: after start, a newer start and a disconnect, both loops of
\* the client have terminated.
C8_Witness ==
    \E c \in Clients : \E i, j \in DOMAIN loops :
        /\ i < j
        /\ loops[i].sid = c /\ loops[j].sid = c
        /\ ~connected[c]
        /\ loops[i].pc = "done" /\ loops[j].pc = "done"

\* What a start_node_ping event must not name: no node, a name that is not
\* stored, a stored node without an address.
RejectedStarts == {n \in StartInputs : n = "" \/ n \notin StoredNodes \/ ~NodeHasIp(n)}

\* C32: a start_node_ping naming no node, an unknown node or a node without
\* an address is answered with ping_error, takes no session token, launches
\* no loop and leaves every session entry and every loop as it was.
C32_RejectedStartChangesNothing ==
    [][\A c \in Clients : \A node \in {"", "ghost", "charlie"} :
         handle_start_node_ping(c, node) =>
             /\ ping_emit' = "ping_error"
             /\ ping_session_counter' = ping_session_counter
             /\ active_ping_sessions' = active_ping_sessions
             /\ loops' = loops]_vars

\* C32 witness: a start was rejected while a client holds a session whose
\* loop is running.
C32_Witness ==
    /\ ping_emit = "ping_error"
    /\ RejectedStarts = {"", "ghost", "charlie"}
    /\ \E i \in DOMAIN loops :
          /\ loops[i].pc \in {"check", "probing", "sleeping"}
          /\ active_ping_sessions[loops[i].sid] # None
          /\ active_ping_sessions[loops[i].sid][1].session_id = loops[i].session_id
          /\ ping_session_counter = loops[i].session_id

(***************************************************************************)
(* LINK ROWS (database.py) and update_link_statuses (scanner.py)           *)
(*                                                                         *)
(* A row keeps the columns the status logic reads or writes: status,       *)
(* last_seen, stable_since and drop_count.  Every database function        *)
(* commits when its connection block ends, so each action below is one     *)
(* committed step of the store.  dropped_at is a history variable: the     *)
(* table has no such column, it records for each row in status dropped     *)
(* the time of the commit that set that status.                            *)
(***************************************************************************)

\* What the link code leaves alone.
LinkFrame == UNCHANGED <<scanVars, iperfVars, pingVars, nodeVars, crawlVars, probeVars, qualityVars, upsertVars, serviceVars, settingVars, runVars>>

\* Faulty variant of RevivedRow: only a dropped row takes the revival branch.
RevivedOnlyFromDropped(existing) == existing.status = "dropped"

\* `existing['status'] in ('dropped', 'removed')` of upsert_link.
RevivedRow(existing) == existing.status \in {"dropped", "removed"}

\* Faulty variant of RowAfterUpsert: the status read by the SELECT is out of
\* date, so an existing row always takes the ON CONFLICT branch.
RowAfterStaleRead(existing, ts) ==
    IF existing = None
    THEN Some([status |-> "good", last_seen |-> ts, stable_since |-> ts,
               drop_count |-> 0])
    ELSE Some([existing[1] EXCEPT !.last_seen = ts])

\* The row upsert_link leaves for a link observed at time ts: the revival
\* UPDATE, the INSERT of a new row (status and drop_count by their column
\* defaults), or the ON CONFLICT update, which refreshes last_seen only.
RowAfterUpsert(existing, ts) ==
    IF existing # None /\ RevivedRow(existing[1])
    THEN Some([status |-> "good", last_seen |-> ts, stable_since |-> ts,
               drop_count |-> existing[1].drop_count + 1])
    ELSE IF existing = None
         THEN Some([status |-> "good", last_seen |-> ts, stable_since |-> ts,
                    drop_count |-> 0])
         ELSE Some([existing[1] EXCEPT !.last_seen = ts])

\* upsert_link: one observation of link k by a discovery crawl.
upsert_link(k) ==
    /\ LinkFrame
    /\ links' = [links EXCEPT ![k] = RowAfterUpsert(links[k], now)]
    /\ dropped_at' = [dropped_at EXCEPT ![k] = None]
    /\ UNCHANGED <<now, recPc, dropped_links>>

\* Faulty variant of StaleGood: the status of the row is not tested.
StaleAnyStatus(row, timeout) == row.last_seen < now - timeout

\* WHERE last_seen < cutoff AND status != 'dropped' AND status != 'removed'
StaleGood(row, timeout) ==
    /\ row.last_seen < now - timeout
    /\ row.status # "dropped"
    /\ row.status # "removed"

\* Faulty variant of OldDropped: the status of the row is not tested.
OldAnyStatus(row, remove_after) == row.last_seen < now - remove_after

\* WHERE last_seen < cutoff AND status = 'dropped'
OldDropped(row, remove_after) ==
    /\ row.last_seen < now - remove_after
    /\ row.status = "dropped"

\* get_links_to_drop, the first step of update_link_statuses.
get_links_to_drop ==
    /\ LinkFrame
    /\ recPc = "idle"
    /\ dropped_links' =
         {k \in StoreKeys : links[k] # None /\ StaleGood(links[k][1], LINK_TIMEOUT)}
    /\ recPc' = "collected"
    /\ UNCHANGED <<now, links, dropped_at>>

\* mark_stale_links_dropped.
mark_stale_links_dropped ==
    /\ LinkFrame
    /\ recPc = "collected"
    /\ links' = [k \in StoreKeys |->
                   IF links[k] # None /\ StaleGood(links[k][1], LINK_TIMEOUT)
                   THEN Some([links[k][1] EXCEPT !.status = "dropped"])
                   ELSE links[k]]
    /\ dropped_at' = [k \in StoreKeys |->
                        IF links[k] # None /\ StaleGood(links[k][1], LINK_TIMEOUT)
                        THEN Some(now)
                        ELSE dropped_at[k]]
    /\ recPc' = "marked"
    /\ UNCHANGED <<now, dropped_links>>

\* remove_old_dropped_links, after which update_link_statuses returns.
remove_old_dropped_links ==
    /\ LinkFrame
    /\ recPc = "marked"
    /\ links' = [k \in StoreKeys |->
                   IF links[k] # None /\ OldDropped(links[k][1], LINK_REMOVE_AFTER)
                   THEN Some([links[k][1] EXCEPT !.status = "removed"])
                   ELSE links[k]]
    /\ dropped_at' = [k \in StoreKeys |->
                        IF links[k] # None /\ OldDropped(links[k][1], LINK_REMOVE_AFTER)
                        THEN None
                        ELSE dropped_at[k]]
    /\ recPc' = "idle"
    /\ UNCHANGED <<now, dropped_links>>

TickLinks(d) ==
    /\ now + d <= MaxTime
    /\ now' = now + d
    /\ UNCHANGED <<scanVars, iperfVars, pingVars, linkVars, nodeVars, crawlVars, probeVars, qualityVars, upsertVars, serviceVars, settingVars, runVars>>

NextLinks ==
    \/ \E k \in LinkKeys : upsert_link(k)
    \/ get_links_to_drop
    \/ mark_stale_links_dropped
    \/ remove_old_dropped_links
    \/ \E d \in LinkTickSteps : TickLinks(d)

SpecLinks == Init /\ [][NextLinks]_vars

StatusOf(row) == IF row = None THEN "absent" ELSE row[1].status

\* The status changes a committed step may make to a row.
StatusSteps ==
    {<<"absent", "good">>, <<"good", "dropped">>, <<"dropped", "removed">>,
     <<"dropped", "good">>, <<"removed", "good">>}

\* C9: between consecutive committed store states a link row's status
\* stays the same or changes good->dropped, dropped->removed, dropped->good
\* or removed->good (a new row starts good); never good->removed.
C9_StatusTransitions ==
    [][\A k \in LinkKeys :
         \/ StatusOf(links'[k]) = StatusOf(links[k])
         \/ <<StatusOf(links[k]), StatusOf(links'[k])>> \in StatusSteps]_vars

\* C9 witness: a row that was dropped, revived, dropped again and removed.
C9_Witness ==
    \E k \in LinkKeys :
        /\ links[k] # None
        /\ links[k][1].status = "removed"
        /\ links[k][1].drop_count >= 1

\* C10: upsert_link on a row stored as dropped or removed makes it good,
\* adds exactly 1 to drop_count and sets stable_since to the observation
\* time; an observation of a good row, and every other operation, changes
\* neither drop_count nor stable_since.
C10_DropCountAndStableSince ==
    [][\A k \in LinkKeys :
         links[k] # None =>
           LET old == links[k][1]
               revival == upsert_link(k) /\ old.status \in {"dropped", "removed"}
           IN  /\ links'[k] # None
               /\ revival =>
                    /\ links'[k][1].status = "good"
                    /\ links'[k][1].drop_count = old.drop_count + 1
                    /\ links'[k][1].stable_since = now
               /\ ~revival =>
                    /\ links'[k][1].drop_count = old.drop_count
                    /\ links'[k][1].stable_since = old.stable_since]_vars

\* C10 witness: a row revived from removed (drop_count 1, stable_since at
\* the revival) and observed again later while good.
C10_Witness ==
    \E k \in LinkKeys :
        /\ links[k] # None
        /\ links[k][1].status = "good"
        /\ links[k][1].drop_count = 1
        /\ links[k][1].stable_since > LINK_REMOVE_AFTER
        /\ links[k][1].last_seen > links[k][1].stable_since

C11_RemovedOnlyAfterGrace ==
    [][\A k \in StoreKeys :
         (StatusOf(links'[k]) = "removed" /\ StatusOf(links[k]) # "removed") =>
            /\ dropped_at[k] # None
            /\ now - dropped_at[k][1] > LINK_REMOVE_AFTER
            /\ k \notin dropped_links]_vars

\* A stored row in status good whose last observation is older than
\* LINK_TIMEOUT at the current time.
GoodAndStale(k) ==
    /\ links[k] # None
    /\ links[k][1].status = "good"
    /\ now - links[k][1].last_seen > LINK_TIMEOUT

\* The events update_link_statuses builds: one per entry of dropped_links.
LinkDroppedEvents(reported) ==
    {[type |-> "link_dropped", node |-> k[1], target |-> k[2]] : k \in reported}

MaxDepthSetting == 2

\* str.lower() on the strings of the model.
Lower(str) ==
    CASE str = "Alpha" -> "alpha"
      [] str = "Bravo" -> "bravo"
      [] str = "B" -> "b"
      [] str = "Hilltop SuperNode" -> "hilltop supernode"
      [] OTHER -> str

SysinfoPath == "/cgi-bin/sysinfo.json?lqm=1&hosts=1&services=1&services_local=1"

\* build_sysinfo_url: scheme and path are put around the host.
build_sysinfo_url(ip_or_hostname) ==
    [scheme |-> "http://", host |-> ip_or_hostname, path |-> SysinfoPath]

\* normalize_start_url for a stored starting_node setting: a setting that
\* already holds the sysinfo path is used as it is.
normalize_start_url(setting) ==
    IF setting.path # SysinfoPath
    THEN build_sysinfo_url(setting.host)
    ELSE [scheme |-> "http://", host |-> setting.host, path |-> setting.path]

\* url.lower(): scheme and path are lower case already.
LowerUrl(url) == [url EXCEPT !.host = Lower(@)]

\* The starting_node settings of the model: the local node by name, and the
\* full sysinfo URL of alpha's address.
StartSettings ==
    {[host |-> "localnode", path |-> ""], [host |-> "a", path |-> SysinfoPath]}

\* Which node answers at a host (host names resolve case-insensitively).
NodeAt(host) ==
    CASE Lower(host) \in {"localnode", "a"} -> "alpha"
      [] Lower(host) = "b" -> "bravo"
      [] Lower(host) = "c" -> "charlie"
      [] OTHER -> "delta"

\* The node name as the node's own report spells it.
ReportedName(n) ==
    CASE n = "alpha" -> "Alpha"
      [] n = "bravo" -> "Bravo"
      [] OTHER -> n

\* The LQM trackers a node may report, in report order.  The mesh of a run
\* has a subset of them.
Trackers ==
    [alpha |->
       << [id |-> 1, hostname |-> "Bravo", canonical_ip |-> "b",
           routable |-> TRUE, type |-> "RF", quality |-> 90],
          [id |-> 2, hostname |-> "charlie", canonical_ip |-> "c",
           routable |-> TRUE, type |-> "RF", quality |-> 70],
          [id |-> 3, hostname |-> "delta", canonical_ip |-> "d",
           routable |-> FALSE, type |-> "DTD", quality |-> 100] >>,
     bravo |->
       << [id |-> 4, hostname |-> "alpha", canonical_ip |-> "a",
           routable |-> TRUE, type |-> "RF", quality |-> 88],
          [id |-> 5, hostname |-> "delta", canonical_ip |-> "d",
           routable |-> TRUE, type |-> "RF", quality |-> 60] >>,
     charlie |->
       << [id |-> 6, hostname |-> "delta", canonical_ip |-> "d",
           routable |-> TRUE, type |-> "RF", quality |-> 75],
          [id |-> 7, hostname |-> "bravo", canonical_ip |-> "B",
           routable |-> TRUE, type |-> "WIREGUARD", quality |-> 100] >>,
     delta |->
       << [id |-> 8, hostname |-> "charlie", canonical_ip |-> "c",
           routable |-> TRUE, type |-> "RF", quality |-> 75] >>]

TrackerIds == 1..8

\* How a run's mesh marks a supernode: not at all, by the node_details
\* flag, or by the description.
SuperChoices ==
    {[node |-> "", flag |-> FALSE],
     [node |-> "charlie", flag |-> TRUE],
     [node |-> "charlie", flag |-> FALSE],
     [node |-> "bravo", flag |-> TRUE]}

\* What goes wrong in a run: nothing, one host that does not answer, or one
\* host whose report has no node name.
FaultChoices ==
    {[host |-> "", kind |-> "none"],
     [host |-> "d", kind |-> "down"],
     [host |-> "b", kind |-> "nameless"]}

\* A mesh in which no host answers: every fetch fails, so what the nodes
\* would report does not matter.
Unreachable ==
    [edges |-> TrackerIds, super |-> [node |-> "", flag |-> FALSE],
     fault |-> [host |-> "", kind |-> "unreachable"], show_tunnels |-> FALSE]

Networks ==
    [edges : SUBSET TrackerIds, super : SuperChoices, fault : FaultChoices,
     show_tunnels : BOOLEAN] \cup {Unreachable}

\* The trackers node n reports in mesh net.
TrackersOf(net, n) ==
    LET Present(tracker) == tracker.id \in net.edges
    IN  SelectSeq(Trackers[n], Present)

\* The sysinfo.json document node n returns in mesh net.
ReportOf(net, n, host) ==
    [node |-> IF net.fault.kind = "nameless" /\ net.fault.host = Lower(host)
              THEN ""
              ELSE ReportedName(n),
     flag |-> net.super.node = n /\ net.super.flag,
     description |-> IF net.super.node = n /\ ~net.super.flag
                     THEN "Hilltop SuperNode"
                     ELSE "mesh node",
     trackers |-> TrackersOf(net, n)]

\* fetch_node_info: None on a timeout or request error, else the document.
fetch_node_info(net, url) ==
    IF \/ net.fault.kind = "unreachable"
       \/ net.fault.kind = "down" /\ net.fault.host = Lower(url.host)
    THEN None
    ELSE Some(ReportOf(net, NodeAt(url.host), url.host))

\* `'supernode' in text` for the texts of the model.
HasMarker(text) == text \in {"hilltop supernode"}

\* is_supernode.
is_supernode(data) ==
    \/ data.flag
    \/ HasMarker(Lower(data.node))
    \/ HasMarker(Lower(data.description))

\* link_type.upper() in ('WIREGUARD', 'TUN', 'TUNNEL', 'VTUN', 'WG')
is_tunnel(link_type) ==
    link_type \in {"WIREGUARD", "TUN", "TUNNEL", "VTUN", "WG"}

\* Faulty variant of LinkStored: no tracker's link is saved.
LinkStoredNever(link_type, show_tunnels) == FALSE

\* `if not is_tunnel or show_tunnels` of process_links.
LinkStored(link_type, show_tunnels) == ~is_tunnel(link_type) \/ show_tunnels

\* The event process_links appends for a link it is about to save.
LinkEvents(existing_link, source_node, hostname, quality) ==
    IF existing_link = None
    THEN << [type |-> "link_new", node |-> source_node, target |-> hostname,
             quality |-> quality] >>
    ELSE IF existing_link[1].status = "dropped"
         THEN << [type |-> "link_restored", node |-> source_node,
                  target |-> hostname, quality |-> quality] >>
         ELSE << >>

\* The trackers process_links handles: those with a hostname.
Named(trackers) ==
    LET HasName(tracker) == Lower(tracker.hostname) # ""
    IN  SelectSeq(trackers, HasName)

\* Whether tracker i is the first one of the report whose link
\* (source_node, hostname) is saved; a later one finds the row good.
FirstSaved(trackers, i, show_tunnels) ==
    /\ LinkStored(trackers[i].type, show_tunnels)
    /\ \A j \in 1..(i - 1) :
          ~(/\ LinkStored(trackers[j].type, show_tunnels)
            /\ Lower(trackers[j].hostname) = Lower(trackers[i].hostname))

\* The link rows after process_links: upsert_link for every saved tracker
\* (a second upsert of a pair in the same report finds the row good with
\* this last_seen and changes nothing).
LinksAfterReport(trackers, source_node, rows, show_tunnels, ts) ==
    [k \in DOMAIN rows |->
       IF /\ k[1] = source_node
          /\ \E i \in 1..Len(trackers) :
                /\ Lower(trackers[i].hostname) = k[2]
                /\ LinkStored(trackers[i].type, show_tunnels)
       THEN RowAfterUpsert(rows[k], ts)
       ELSE rows[k]]

RECURSIVE LinkEventsFrom(_, _, _, _, _)
\* The link events of process_links, in tracker order, from tracker i on.
LinkEventsFrom(trackers, i, source_node, rows, show_tunnels) ==
    IF i > Len(trackers)
    THEN << >>
    ELSE (IF FirstSaved(trackers, i, show_tunnels)
          THEN LinkEvents(rows[<<source_node, Lower(trackers[i].hostname)>>],
                          source_node, Lower(trackers[i].hostname),
                          trackers[i].quality)
          ELSE << >>)
         \o LinkEventsFrom(trackers, i + 1, source_node, rows, show_tunnels)

\* Faulty variant of Discovered: a tunnel-type tracker is no candidate.
DiscoveredNonTunnel(trackers) ==
    LET Routable(tracker) ==
            tracker.routable /\ tracker.canonical_ip # "" /\ ~is_tunnel(tracker.type)
        found == SelectSeq(trackers, Routable)
    IN  [i \in 1..Len(found) |->
           [hostname |-> Lower(found[i].hostname),
            ip |-> found[i].canonical_ip,
            url |-> build_sysinfo_url(found[i].canonical_ip)]]

\* The discovered list of process_links: every routable tracker with a
\* canonical_ip, whatever its link type.
Discovered(trackers) ==
    LET Routable(tracker) == tracker.routable /\ tracker.canonical_ip # ""
        found == SelectSeq(trackers, Routable)
    IN  [i \in 1..Len(found) |->
           [hostname |-> Lower(found[i].hostname),
            ip |-> found[i].canonical_ip,
            url |-> build_sysinfo_url(found[i].canonical_ip)]]

\* Faulty variant of NodeEvents: a new node is not announced.
NodeEventsSilent(existing_node, node_name) == << >>

\* The events process_node_data appends: node_discovered for a name not yet
\* stored, node_online for a stored inactive node.
NodeEvents(existing_node, node_name) ==
    IF existing_node = None
    THEN << [type |-> "node_discovered", node |-> node_name] >>
    ELSE IF ~existing_node[1].is_active
         THEN << [type |-> "node_online", node |-> node_name] >>
         ELSE << >>

\* The row upsert_node leaves: last_seen refreshed, is_active forced to 1.
NodeRowAfterUpsert(ts, supernode) ==
    Some([is_active |-> TRUE, last_seen |-> ts, is_supernode |-> supernode])

\* Faulty variant of NormalizedUrl: addresses are compared as spelled.
UrlAsSpelled(url) == url

\* `normalized = url.lower()` and `node_url.lower()`.
NormalizedUrl(url) == LowerUrl(url)

\* Faulty variant of BelowMaxDepth: nodes at max_depth are expanded too.
UpToMaxDepth(depth, limit) == depth <= limit

\* `depth < max_depth`
BelowMaxDepth(depth, limit) == depth < limit

\* Faulty variant of MayTraverse: supernodes are expanded like any node.
MayTraverseAlways(supernode) == TRUE

\* `not supernode`
MayTraverse(supernode) == ~supernode

\* The frontier after the expansion loop for one fetched node.
Expanded(frontier, discovered, depth, visited) ==
    LET Unvisited(node_info) == NormalizedUrl(node_info.url) \notin visited
        fresh == SelectSeq(discovered, Unvisited)
    IN  frontier \o [i \in 1..Len(fresh) |->
                       [url |-> fresh[i].url, depth |-> depth + 1]]

\* What the discovery run leaves alone.
CrawlFrame ==
    UNCHANGED <<now, scanVars, iperfVars, pingVars, recPc, dropped_links,
                nodePc, inactive_nodes, probeVars, qualityVars, upsertVars, serviceVars, settingVars, runVars>>

\* discover_network from its entry to the while loop: the settings are
\* read, the start URL is normalized and queued at depth 0.
discover_network_begin ==
    /\ CrawlFrame
    /\ crawlPc = "idle"
    /\ \E net \in Networks : network' = Some(net)
    /\ \E depth_setting \in 1..MaxDepthSetting : max_depth' = depth_setting
    /\ \E setting \in StartSettings :
          queue' = << [url |-> normalize_start_url(setting), depth |-> 0] >>
    /\ visited_urls' = {}
    /\ visited_nodes' = {}
    /\ nodes_found' = 0
    /\ links_found' = 0
    /\ max_depth_reached' = 0
    /\ errors' = << >>
    /\ all_events' = << >>
    /\ crawlPc' = "loop"
    /\ UNCHANGED <<cur, fetch_log, links, dropped_at, nodes>>

\* queue.pop(0): an address already visited is skipped, any other is marked
\* visited and its request is sent.
discover_network_pop ==
    /\ CrawlFrame
    /\ crawlPc = "loop"
    /\ queue # << >>
    /\ queue' = Tail(queue)
    /\ LET url == Head(queue).url
           depth == Head(queue).depth
       IN  IF NormalizedUrl(url) \in visited_urls
           THEN UNCHANGED <<visited_urls, cur, fetch_log, crawlPc>>
           ELSE /\ visited_urls' = visited_urls \cup {NormalizedUrl(url)}
                /\ cur' = Some([url |-> url, depth |-> depth])
                /\ fetch_log' = Append(fetch_log, [url |-> url, depth |-> depth])
                /\ crawlPc' = "fetching"
    /\ UNCHANGED <<network, max_depth, visited_nodes, nodes_found, links_found,
                   max_depth_reached, errors, all_events, links, dropped_at,
                   nodes>>

\* Faulty variant of discover_network_fetch_failed: the failure ends the
\* crawl by emptying the frontier.
discover_network_fetch_aborts ==
    /\ CrawlFrame
    /\ crawlPc = "fetching"
    /\ fetch_node_info(network[1], cur[1].url) = None
    /\ errors' = Append(errors, [error |-> "Failed to fetch", url |-> cur[1].url])
    /\ cur' = None
    /\ queue' = << >>
    /\ crawlPc' = "loop"
    /\ UNCHANGED <<network, max_depth, visited_urls, visited_nodes,
                   nodes_found, links_found, max_depth_reached, all_events,
                   fetch_log, links, dropped_at, nodes>>

\* Faulty variant of discover_network_fetch_failed: the address that failed
\* is forgotten and queued again for another try.
discover_network_fetch_retries ==
    /\ CrawlFrame
    /\ crawlPc = "fetching"
    /\ fetch_node_info(network[1], cur[1].url) = None
    /\ errors' = Append(errors, [error |-> "Failed to fetch", url |-> cur[1].url])
    /\ visited_urls' = visited_urls \ {NormalizedUrl(cur[1].url)}
    /\ queue' = Append(queue, cur[1])
    /\ cur' = None
    /\ crawlPc' = "loop"
    /\ UNCHANGED <<network, max_depth, visited_nodes,
                   nodes_found, links_found, max_depth_reached, all_events,
                   fetch_log, links, dropped_at, nodes>>

\* The fetch failed: an errors entry, and the loop goes on.
discover_network_fetch_failed ==
    /\ CrawlFrame
    /\ crawlPc = "fetching"
    /\ fetch_node_info(network[1], cur[1].url) = None
    /\ errors' = Append(errors, [error |-> "Failed to fetch", url |-> cur[1].url])
    /\ cur' = None
    /\ crawlPc' = "loop"
    /\ UNCHANGED <<network, max_depth, visited_urls, visited_nodes, queue,
                   nodes_found, links_found, max_depth_reached, all_events,
                   fetch_log, links, dropped_at, nodes>>

\* The report has no node name: process_node_data returns (None, []).
discover_network_invalid ==
    /\ CrawlFrame
    /\ crawlPc = "fetching"
    /\ fetch_node_info(network[1], cur[1].url) # None
    /\ Lower(fetch_node_info(network[1], cur[1].url)[1].node) = ""
    /\ errors' = Append(errors, [error |-> "Invalid node data", url |-> cur[1].url])
    /\ cur' = None
    /\ crawlPc' = "loop"
    /\ UNCHANGED <<network, max_depth, visited_urls, visited_nodes, queue,
                   nodes_found, links_found, max_depth_reached, all_events,
                   fetch_log, links, dropped_at, nodes>>

\* The report arrived: process_node_data stores the node, process_links
\* stores its links, the counters are updated and the frontier is expanded.
discover_network_fetched ==
    /\ CrawlFrame
    /\ crawlPc = "fetching"
    /\ fetch_node_info(network[1], cur[1].url) # None
    /\ Lower(fetch_node_info(network[1], cur[1].url)[1].node) # ""
    /\ LET data == fetch_node_info(network[1], cur[1].url)[1]
           depth == cur[1].depth
           node_name == Lower(data.node)
           supernode == is_supernode(data)
           trackers == Named(data.trackers)
           show_tunnels == network[1].show_tunnels
           discovered == Discovered(trackers)
       IN  /\ nodes' = [nodes EXCEPT ![node_name] = NodeRowAfterUpsert(now, supernode)]
           /\ links' = LinksAfterReport(trackers, node_name, links, show_tunnels, now)
           /\ dropped_at' = [k \in StoreKeys |->
                               IF links'[k] # links[k] THEN None
                               ELSE dropped_at[k]]
           /\ all_events' =
                all_events \o NodeEvents(nodes[node_name], node_name)
                           \o LinkEventsFrom(trackers, 1, node_name, links,
                                             show_tunnels)
           /\ IF node_name \notin visited_nodes
              THEN /\ visited_nodes' = visited_nodes \cup {node_name}
                   /\ nodes_found' = nodes_found + 1
                   /\ max_depth_reached' =
                        IF depth > max_depth_reached THEN depth
                        ELSE max_depth_reached
              ELSE UNCHANGED <<visited_nodes, nodes_found, max_depth_reached>>
           /\ links_found' = links_found + Len(discovered)
           /\ queue' = IF BelowMaxDepth(depth, max_depth) /\ MayTraverse(supernode)
                       THEN Expanded(queue, discovered, depth, visited_urls)
                       ELSE queue
    /\ cur' = None
    /\ crawlPc' = "loop"
    /\ UNCHANGED <<network, max_depth, visited_urls, errors, fetch_log>>

\* The frontier is empty: the result object is returned.
discover_network_return ==
    /\ CrawlFrame
    /\ crawlPc = "loop"
    /\ queue = << >>
    /\ crawlPc' = "returned"
    /\ UNCHANGED <<network, max_depth, cur, visited_urls, visited_nodes, queue,
                   nodes_found, links_found, max_depth_reached, errors,
                   all_events, fetch_log, links, dropped_at, nodes>>

NextCrawl ==
    \/ discover_network_begin
    \/ discover_network_pop
    \/ discover_network_fetch_failed
    \/ discover_network_invalid
    \/ discover_network_fetched
    \/ discover_network_return

SpecCrawl == Init /\ [][NextCrawl]_vars

(***************************************************************************)
(* NODE RECONCILIATION (scanner.py update_node_statuses, run_scan;         *)
(* database.py upsert_node, get_nodes_to_mark_inactive,                    *)
(* mark_stale_nodes_inactive, get_orphan_nodes).                           *)
(*                                                                         *)
(* run_scan calls discover_network, then update_link_statuses, then        *)
(* update_node_statuses.  Here a crawl is seen from the store: each        *)
(* fetched report is one process_report step that writes the node row and  *)
(* the link rows of the report.  The link sweep is the three steps of      *)
(* update_link_statuses above; the node sweep is the two database calls of *)
(* update_node_statuses.  The node sweep reads and writes the nodes table  *)
(* only, and no code path calls get_orphan_nodes or                        *)
(* mark_orphan_nodes_inactive.                                             *)
(***************************************************************************)

\* Largest clock value of the node specification: long enough for a link
\* to be dropped and then removed.
MaxNodeTime == 610

\* The nodes whose reports the crawls of this specification fetch.
ReportingNodes == {"alpha", "bravo"}

\* What the node code leaves alone.
NodeFrame == UNCHANGED <<scanVars, iperfVars, pingVars, crawlVars, probeVars, qualityVars, upsertVars, serviceVars, settingVars, runVars>>

\* WHERE last_seen < cutoff AND is_active = 1
StaleActive(row, timeout) ==
    /\ row.last_seen < now - timeout
    /\ row.is_active

\* The WHERE clause of get_orphan_nodes and mark_orphan_nodes_inactive: an
\* active node that is the source or the target of no link row whose status
\* is not 'removed'.
IsOrphan(n, node_rows, link_rows) ==
    /\ node_rows[n] # None
    /\ node_rows[n][1].is_active
    /\ ~\E k \in StoreKeys :
          /\ k[1] = n \/ k[2] = n
          /\ link_rows[k] # None
          /\ link_rows[k][1].status # "removed"

\* One fetched report of node n during a crawl: process_node_data upserts
\* the node row, process_links upserts one link row per tracker.  No
\* reconciliation is in progress, since run_scan starts it after the crawl.
process_report(n, targets) ==
    /\ NodeFrame
    /\ recPc = "idle"
    /\ nodePc = "idle"
    /\ nodes' = [nodes EXCEPT ![n] = NodeRowAfterUpsert(now, FALSE)]
    /\ links' = [k \in StoreKeys |->
                   IF k[1] = n /\ k[2] \in targets
                   THEN RowAfterUpsert(links[k], now)
                   ELSE links[k]]
    /\ dropped_at' = [k \in StoreKeys |->
                        IF k[1] = n /\ k[2] \in targets THEN None
                        ELSE dropped_at[k]]
    /\ UNCHANGED <<now, recPc, dropped_links, nodePc, inactive_nodes>>

\* get_nodes_to_mark_inactive, the first step of update_node_statuses.
get_nodes_to_mark_inactive ==
    /\ NodeFrame
    /\ recPc = "idle"
    /\ nodePc = "idle"
    /\ inactive_nodes' =
         {n \in NodeNames : nodes[n] # None /\ StaleActive(nodes[n][1], LINK_TIMEOUT)}
    /\ nodePc' = "collected"
    /\ UNCHANGED <<now, linkVars, nodes>>

\* mark_stale_nodes_inactive, after which update_node_statuses returns.
mark_stale_nodes_inactive ==
    /\ NodeFrame
    /\ nodePc = "collected"
    /\ nodes' = [n \in NodeNames |->
                   IF nodes[n] # None /\ StaleActive(nodes[n][1], LINK_TIMEOUT)
                   THEN Some([nodes[n][1] EXCEPT !.is_active = FALSE])
                   ELSE nodes[n]]
    /\ nodePc' = "idle"
    /\ UNCHANGED <<now, linkVars, inactive_nodes>>

\* Time passes between any two steps of a scan.
TickNodes(d) ==
    /\ now + d <= MaxNodeTime
    /\ now' = now + d
    /\ UNCHANGED <<scanVars, iperfVars, pingVars, linkVars, nodeVars, crawlVars, probeVars, qualityVars, upsertVars, serviceVars, settingVars, runVars>>

NextNodes ==
    \/ \E n \in ReportingNodes :
         \E targets \in SUBSET (ReportingNodes \ {n}) : process_report(n, targets)
    \/ nodePc = "idle" /\ get_links_to_drop
    \/ mark_stale_links_dropped
    \/ remove_old_dropped_links
    \/ get_nodes_to_mark_inactive
    \/ mark_stale_nodes_inactive
    \/ \E d \in LinkTickSteps : TickNodes(d)

SpecNodes == Init /\ [][NextNodes]_vars

\* C13: when the node sweep of a reconciliation returns, no active node is
\* without a link of status other than removed in either direction.
C13_NoActiveOrphan ==
    [][(nodePc = "collected" /\ nodePc' = "idle")
         => \A n \in NodeNames : ~IsOrphan(n, nodes', links')]_vars

\* The link rows whose status a step changes to dropped.
NewlyDropped ==
    {k \in StoreKeys : StatusOf(links'[k]) = "dropped" /\ StatusOf(links[k]) # "dropped"}

\* The node rows whose active flag a step clears.
NewlyInactive ==
    {n \in NodeNames : /\ nodes[n] # None
                       /\ nodes[n][1].is_active
                       /\ ~nodes'[n][1].is_active}

\* C29: in every reconciliation the links listed in dropped_links are
\* exactly the links the marking step changes to dropped, and the nodes
\* listed in inactive_nodes are exactly the nodes whose active flag the
\* marking step clears, also when time passes between the query and the
\* update.
C29_ReportedIsMarked ==
    /\ [][(recPc = "collected" /\ recPc' = "marked")
            => NewlyDropped = dropped_links]_vars
    /\ [][(nodePc = "collected" /\ nodePc' = "idle")
            => NewlyInactive = inactive_nodes]_vars

\* The node_offline events update_node_statuses returns: one for each entry
\* of the list its query gave.
NodeOfflineEvents == {[type |-> "node_offline", node |-> n] : n \in inactive_nodes}

\* The active nodes whose last_seen is older than the timeout.
StaleActiveNodes ==
    {n \in NodeNames : nodes[n] # None /\ StaleActive(nodes[n][1], LINK_TIMEOUT)}

\* C33, the marking: the update of a reconciliation clears the active flag
\* of exactly the active nodes older than the timeout.
C33_MarksExactlyStale ==
    [][(nodePc = "collected" /\ nodePc' = "idle")
         => NewlyInactive = StaleActiveNodes]_vars

\* C33, the quiet part: the query never lists a node that is already
\* inactive, and no node row is ever deleted.
C33_NoRepeatNoDelete ==
    /\ [][(nodePc = "idle" /\ nodePc' = "collected")
            => \A n \in inactive_nodes' : nodes[n][1].is_active]_vars
    /\ [][\A n \in NodeNames : nodes[n] # None => nodes'[n] # None]_vars

\* C33: a reconciliation clears the active flag of exactly the active nodes
\* older than the timeout and returns one node_offline event for each of
\* them; an inactive node gets no further event, and no row is deleted.
C33_OneEventPerNodeSetInactive ==
    /\ C33_MarksExactlyStale
    /\ C33_NoRepeatNoDelete
    /\ [][(nodePc = "collected" /\ nodePc' = "idle")
            => NodeOfflineEvents =
                 {[type |-> "node_offline", node |-> n] : n \in NewlyInactive}]_vars

(***************************************************************************)
(* LATENCY PROBES (rf_stats.py ping_node, ping_via_aredn; app.py           *)
(* api_trigger_rf_test with type=ping).                                    *)
(*                                                                         *)
(* The text a ping command or a mesh node's ping endpoint returns is       *)
(* modelled by what the regular expressions of the parsers find in it.     *)
(* Times are whole milliseconds.                                           *)
(***************************************************************************)

\* Largest number of latency samples written to link_history.
MaxRfTests == 1

\* What the probe code leaves alone.
ProbeFrame ==
    UNCHANGED <<now, scanVars, iperfVars, pingVars, linkVars, nodeVars, crawlVars,
                qualityVars, upsertVars, serviceVars, settingVars, runVars>>

\* The ip_address arguments: missing, empty, and an address.
PingAddresses == {None, Some(""), Some("10.1.1.2")}

\* platform.system().lower(); macOS takes the Linux branch.
Platforms == {"windows", "linux"}

\* What running the ping command gives: subprocess.TimeoutExpired, another
\* exception (no ping binary), or an output text, described by the loss
\* percentage it states, the timing summary it holds (well formed, or with
\* numbers float() rejects such as 1.2.3), and, for the single-reply forms
\* of Windows, a reply line or a "Request timed out" line.
PingRuns ==
    {[kind |-> "timeout"], [kind |-> "exception"]}
       \cup [kind : {"output"},
             loss : {None, Some(0), Some(40), Some(100)},
             stats : {None,
                      Some([min |-> 1, avg |-> 2, max |-> 3, well_formed |-> TRUE]),
                      Some([min |-> 1, avg |-> 2, max |-> 3, well_formed |-> FALSE])},
             single : {"none", "reply", "timed_out"}]

\* The time of the reply line of the single-reply form.
ReplyTime == 5

\* {'min': None, 'avg': None, 'max': None, 'loss': 100.0}
TotalLoss == [min |-> None, avg |-> None, max |-> None, loss |-> 100]

\* A record with timings.
Timed(min, avg, max, loss) ==
    [min |-> Some(min), avg |-> Some(avg), max |-> Some(max), loss |-> loss]

\* Faulty variant of AfterException: the failure is reported as no result.
AfterExceptionNone(address) == None

\* The except clauses of ping_node: a total-loss record.
AfterException(address) == Some(TotalLoss)

\* `float(loss_match.group(1)) if loss_match else 100.0`
LossOf(run) == IF run.loss = None THEN 100 ELSE run.loss[1]

\* The Windows branch of ping_node.  Its summary pattern takes whole
\* numbers only, so a malformed summary is no match.
ParseWindows(run, address) ==
    IF run.stats # None /\ run.stats[1].well_formed /\ LossOf(run) < 100
    THEN Some(Timed(run.stats[1].min, run.stats[1].avg, run.stats[1].max,
                    LossOf(run)))
    ELSE IF run.single = "reply"
         THEN Some(Timed(ReplyTime, ReplyTime, ReplyTime, 0))
         ELSE Some(TotalLoss)

\* The Linux/macOS branch of ping_node.  Its summary pattern takes digits
\* and dots, so float() raises ValueError on a malformed number.
ParseLinux(run, address) ==
    IF run.stats # None /\ LossOf(run) < 100
    THEN IF run.stats[1].well_formed
         THEN Some(Timed(run.stats[1].min, run.stats[1].avg, run.stats[1].max,
                         LossOf(run)))
         ELSE AfterException(address)
    ELSE Some(TotalLoss)

\* ping_node.
ping_node(ip_address, system, run) ==
    IF ip_address = None \/ ip_address = Some("")
    THEN None
    ELSE IF run.kind # "output"
         THEN AfterException(ip_address)
         ELSE IF system = "windows"
              THEN ParseWindows(run, ip_address)
              ELSE ParseLinux(run, ip_address)

\* One call of ping_node.
call_ping_node ==
    /\ ProbeFrame
    /\ \E ip_address \in PingAddresses, system \in Platforms, run \in PingRuns :
          /\ probe_call' = Some([ip_address |-> ip_address, system |-> system,
                                 run |-> run])
          /\ probe_result' = ping_node(ip_address, system, run)
    /\ UNCHANGED <<rf_call, rf_reply, link_history>>

NextPingNode ==
    \/ call_ping_node

SpecPingNode == Init /\ [][NextPingNode]_vars

\* C23 as claimed: every call of ping_node returns a record.
C23_AlwaysARecord ==
    probe_call # None => probe_result # None

\* C23: for an address that is not empty ping_node returns a record,
\* whatever the platform and the outcome of the command; the record has all
\* three timings or none, and it has none exactly when its loss is 100.  For
\* an empty or missing address ping_node returns None.
C23_RecordUnlessNoAddress ==
    probe_call # None =>
       IF probe_call[1].ip_address \in {None, Some("")}
       THEN probe_result = None
       ELSE /\ probe_result # None
            /\ probe_result[1].loss \in 0..100
            /\ \/ probe_result[1] = TotalLoss
               \/ /\ probe_result[1].loss < 100
                  /\ probe_result[1].min # None
                  /\ probe_result[1].avg # None
                  /\ probe_result[1].max # None

\* C23 witness: on Linux the timing summary holds a number float() rejects
\* and ping_node has returned the total-loss record.
C23_Witness ==
    /\ probe_call # None
    /\ probe_call[1].ip_address = Some("10.1.1.2")
    /\ probe_call[1].system = "linux"
    /\ probe_call[1].run.kind = "output"
    /\ probe_call[1].run.loss = Some(0)
    /\ probe_call[1].run.stats # None
    /\ ~probe_call[1].run.stats[1].well_formed
    /\ probe_result = Some(TotalLoss)

\* What the GET of the mesh node's ping endpoint gives: requests.Timeout,
\* another RequestException, or a response with a status and a text,
\* described by what the patterns of ping_via_aredn find in it: an error
\* word, a loss percentage, a min/avg/max summary (well formed or not) and
\* an "alive" or "bytes from" word.
HttpOutcomes ==
    {[kind |-> "timeout"], [kind |-> "connection_error"]}
       \cup [kind : {"response"},
             status : {200, 502},
             error_text : BOOLEAN,
             loss : {None, Some(0), Some(100)},
             stats : {None,
                      Some([min |-> 1, avg |-> 2, max |-> 3, well_formed |-> TRUE]),
                      Some([min |-> 1, avg |-> 2, max |-> 3, well_formed |-> FALSE])},
             alive_text : BOOLEAN]

\* The request did not bring a 200 response.
TransportFailed(http) == http.kind # "response" \/ http.status # 200

\* Faulty variant of AfterHttpFailure: a degraded record is returned.
AfterHttpFailureTotalLoss(target) == Some(TotalLoss)

\* `return None` after a status other than 200 and in the except clauses
\* of ping_via_aredn.
AfterHttpFailure(target) == None

\* ping_via_aredn for a target that is not empty.
ping_via_aredn(target, http) ==
    IF TransportFailed(http)
    THEN AfterHttpFailure(target)
    ELSE IF http.error_text
         THEN None
         ELSE IF http.stats # None
              THEN IF http.stats[1].well_formed
                   THEN Some(Timed(http.stats[1].min, http.stats[1].avg,
                                   http.stats[1].max,
                                   IF http.loss = None THEN 0 ELSE http.loss[1]))
                   ELSE AfterHttpFailure(target)
              ELSE IF http.alive_text
                   THEN Some([min |-> None, avg |-> None, max |-> None, loss |-> 0])
                   ELSE None

\* update_link_history_ping when no recent row without a latency sample
\* exists: a row is inserted if the link is stored, else nothing is written.
update_link_history_ping(history, source, target, sample, link_stored) ==
    IF link_stored
    THEN Append(history, [source |-> source, target |-> target, ping |-> sample])
    ELSE history

\* `if target_ip:`
HasAddress(target_ip) == target_ip # None /\ target_ip # Some("")

\* The rest of the manual test once the probe has returned: a result is
\* written to link_history and returned, no result is answered with
\* status 500.
AnswerRfTest(call, result) ==
    /\ rf_call' = Some(call)
    /\ IF result # None
       THEN /\ link_history' =
                 update_link_history_ping(link_history, "alpha", "bravo",
                                          result[1], call.link_stored)
            /\ rf_reply' = Some([status |-> 200, result |-> result])
       ELSE /\ link_history' = link_history
            /\ rf_reply' = Some([status |-> 500, result |-> None])

\* POST /api/rf-stats/test/alpha/bravo?type=ping: ping_node when the store
\* has an address for the target, else ping_via_aredn.
api_trigger_rf_test ==
    /\ ProbeFrame
    /\ Len(link_history) < MaxRfTests
    /\ \E target_ip \in PingAddresses, link_stored \in BOOLEAN :
          IF HasAddress(target_ip)
          THEN \E system \in Platforms, run \in PingRuns :
                  AnswerRfTest([direct |-> TRUE, target_ip |-> target_ip,
                                link_stored |-> link_stored,
                                system |-> system, run |-> run],
                               ping_node(target_ip, system, run))
          ELSE \E http \in HttpOutcomes :
                  AnswerRfTest([direct |-> FALSE, target_ip |-> target_ip,
                                link_stored |-> link_stored, http |-> http],
                               ping_via_aredn("bravo", http))
    /\ UNCHANGED <<probe_call, probe_result>>

NextRfTest ==
    \/ api_trigger_rf_test

SpecRfTest == Init /\ [][NextRfTest]_vars

\* C24: when the request to the mesh node's ping endpoint fails (timeout,
\* connection error, status other than 200), ping_via_aredn returns None,
\* and the manual test that used it writes nothing to link_history and
\* answers with status 500.
C24_NullOnTransportFailure ==
    [][(/\ rf_call' # None
        /\ rf_call' # rf_call \/ rf_reply' # rf_reply \/ link_history' # link_history
        /\ ~rf_call'[1].direct
        /\ TransportFailed(rf_call'[1].http))
         => /\ ping_via_aredn("bravo", rf_call'[1].http) = None
            /\ link_history' = link_history
            /\ rf_reply' = Some([status |-> 500, result |-> None])]_vars

\* C24 witness: the store has no address for the target, the mesh node
\* answered with status 502 and a text that holds a timing summary, and the
\* manual test has answered 500 with no sample written.
C24_Witness ==
    /\ rf_call # None
    /\ ~rf_call[1].direct
    /\ rf_call[1].http.kind = "response"
    /\ rf_call[1].http.status = 502
    /\ rf_call[1].http.stats # None
    /\ rf_call[1].link_stored
    /\ rf_reply = Some([status |-> 500, result |-> None])
    /\ link_history = << >>

(***************************************************************************)
(* NODE FIELDS (database.py upsert_node).                                  *)
(*                                                                         *)
(* One node row with the columns upsert_node writes, apart from            *)
(* is_supernode, which it always overwrites.  The row is written by a      *)
(* sequence of upsert_node calls; between them time passes and the node    *)
(* sweep may clear the active flag.                                        *)
(***************************************************************************)

\* Largest number of upsert_node calls for the row.
MaxUpserts == 2

\* What the node field code leaves alone.
UpsertFrame ==
    UNCHANGED <<scanVars, iperfVars, pingVars, linkVars, nodeVars, crawlVars,
                probeVars, qualityVars, serviceVars, settingVars, runVars>>

\* The optional columns of the nodes table.
OptionalFields ==
    {"ip", "description", "model", "firmware_version", "lat", "lon",
     "rf_frequency", "rf_channel"}

\* Which optional fields one report has: none, one, all but one, or all.
PresentSets ==
    {{}, OptionalFields}
       \cup {{f} : f \in OptionalFields}
       \cup {OptionalFields \ {f} : f \in OptionalFields}

\* The values a report gives to the fields it has.
FieldValues == {"v1", "v2"}

\* The keyword arguments of one upsert_node call.
UpsertArgs ==
    {[f \in OptionalFields |-> IF f \in present THEN Some(value) ELSE None] :
        present \in PresentSets, value \in FieldValues}

\* Faulty variant of Coalesce: the new value replaces the stored one even
\* when it is NULL.
Overwritten(new_value, stored) == new_value

\* COALESCE(excluded.x, x)
Coalesce(new_value, stored) == IF new_value # None THEN new_value ELSE stored

\* The row upsert_node leaves: the INSERT for a new name, the ON CONFLICT
\* update for a stored one.
NodeFieldsAfterUpsert(existing, args, ts) ==
    IF existing = None
    THEN Some([fields |-> args, first_seen |-> ts, last_seen |-> ts,
               is_active |-> TRUE])
    ELSE Some([fields |-> [f \in OptionalFields |->
                             Coalesce(args[f], existing[1].fields[f])],
               first_seen |-> existing[1].first_seen,
               last_seen |-> ts,
               is_active |-> TRUE])

\* upsert_node for the name of the row.
upsert_node(args) ==
    /\ UpsertFrame
    /\ upsert_count < MaxUpserts
    /\ node_record' = NodeFieldsAfterUpsert(node_record, args, now)
    /\ upsert_args' = Some(args)
    /\ upsert_count' = upsert_count + 1
    /\ UNCHANGED now

\* mark_stale_nodes_inactive (or mark_node_inactive) clears the flag.
clear_active_flag ==
    /\ UpsertFrame
    /\ node_record # None
    /\ node_record[1].is_active
    /\ node_record' = Some([node_record[1] EXCEPT !.is_active = FALSE])
    /\ UNCHANGED <<now, upsert_args, upsert_count>>

\* Time passes between two calls.
TickUpsert ==
    /\ UpsertFrame
    /\ now < upsert_count
    /\ now' = now + 1
    /\ UNCHANGED <<node_record, upsert_args, upsert_count>>

NextUpsert ==
    \/ \E args \in UpsertArgs : upsert_node(args)
    \/ clear_active_flag
    \/ TickUpsert

SpecUpsert == Init /\ [][NextUpsert]_vars

\* C27: upsert_node for a stored name keeps every optional field whose new
\* value is None, overwrites every optional field whose new value is
\* present, sets last_seen to the time of the call, sets the active flag and
\* leaves first_seen as it was.
C27_UpsertMergesFields ==
    [][(upsert_count' = upsert_count + 1 /\ node_record # None) =>
         /\ node_record' # None
         /\ \A f \in OptionalFields :
               IF upsert_args'[1][f] = None
               THEN node_record'[1].fields[f] = node_record[1].fields[f]
               ELSE node_record'[1].fields[f] = upsert_args'[1][f]
         /\ node_record'[1].last_seen = now
         /\ node_record'[1].is_active
         /\ node_record'[1].first_seen = node_record[1].first_seen]_vars

\* C27 witness: after a second call that brought only rf_channel, the row
\* still has the ip of the first call, has the new rf_channel, was seen
\* later than it was first seen and is active.
C27_Witness ==
    /\ upsert_count = 2
    /\ node_record # None
    /\ upsert_args[1]["ip"] = None
    /\ upsert_args[1]["rf_channel"] = Some("v2")
    /\ node_record[1].fields["ip"] = Some("v1")
    /\ node_record[1].fields["rf_channel"] = Some("v2")
    /\ node_record[1].first_seen < node_record[1].last_seen
    /\ node_record[1].is_active

\* The fields process_node_data reads with a default of '': a report that
\* omits one of them gives the empty string for it.  ip, lat and lon stay
\* None when the report has no br-lan address or no position.
TextFields ==
    {"description", "model", "firmware_version", "rf_frequency", "rf_channel"}

\* The status reports of the node: for each optional field its value, or
\* None when the report omits it.
NodeReports == UpsertArgs

\* The keyword arguments process_node_data passes to upsert_node.
ExtractedArgs(report) ==
    [f \in OptionalFields |->
       IF f \in TextFields /\ report[f] = None THEN Some("") ELSE report[f]]

\* process_node_data for a report of the node: the fields are extracted
\* and upsert_node is called with them.
process_node_data_fields(report) == upsert_node(ExtractedArgs(report))

NextNodeFields ==
    \/ \E report \in NodeReports : process_node_data_fields(report)
    \/ clear_active_flag
    \/ TickUpsert

SpecNodeFields == Init /\ [][NextNodeFields]_vars

\* C35: when a report of a stored node omits description, model, firmware
\* version, RF frequency or RF channel, the non-empty value stored for that
\* field is still stored after process_node_data.
C35_OmittedFieldKept ==
    [][\A report \in NodeReports :
         (process_node_data_fields(report) /\ node_record # None) =>
             \A f \in TextFields :
                 (report[f] = None /\ node_record[1].fields[f] \notin {None, Some("")})
                    => node_record'[1].fields[f] = node_record[1].fields[f]]_vars

(***************************************************************************)
(* NODE SERVICES (scanner.py process_node_data, database.py                *)
(* clear_node_services / upsert_service / get_node_services).              *)
(*                                                                         *)
(* The services rows of one node.  process_node_data deletes them and      *)
(* inserts the services_local entries of the report one by one, each       *)
(* statement in a connection and transaction of its own.  None of these    *)
(* calls yields to another green thread, so the whole replacement is one   *)
(* step; an insert that raises ends the step where it stands, with the     *)
(* earlier statements committed.                                           *)
(***************************************************************************)

\* Largest number of reports applied to the node.
MaxReports == 2

\* Largest number of services_local entries in one report.
MaxServices == 2

\* What the service code leaves alone.
ServiceFrame ==
    UNCHANGED <<now, scanVars, iperfVars, pingVars, linkVars, nodeVars,
                crawlVars, probeVars, qualityVars, upsertVars, settingVars, runVars>>

\* The 'name' of a services_local entry: a string, or JSON null.
ServiceEntries == {Some("web"), Some("chat"), None}

\* The services_local lists a report can carry.
RECURSIVE ServiceLists(_)
ServiceLists(n) ==
    IF n = 0 THEN {<<>>}
    ELSE LET shorter == ServiceLists(n - 1)
         IN shorter \cup {Append(l, e) : l \in {s \in shorter : Len(s) = n - 1},
                                         e \in ServiceEntries}

ServiceReports == ServiceLists(MaxServices)

\* DELETE FROM services WHERE node_name = ?
clear_node_services(rows) == {}

\* INSERT ... ON CONFLICT(node_name, name, ip) DO UPDATE: the rows after the
\* statement, for an entry with a name.
upsert_service(rows, name) == rows \cup {name}

\* The column 'name' is NOT NULL: an entry whose name is null makes the
\* INSERT raise.
InsertRaises(entry) == entry = None

\* The loop over services_local: rows after it, and whether it raised.
RECURSIVE InsertServices(_, _)
InsertServices(rows, rest) ==
    IF rest = <<>> THEN [rows |-> rows, raised |-> FALSE]
    ELSE IF InsertRaises(Head(rest)) THEN [rows |-> rows, raised |-> TRUE]
    ELSE InsertServices(upsert_service(rows, Head(rest)[1]), Tail(rest))

\* The named services of a report.
ReportedServices(report) ==
    {report[i][1] : i \in {j \in 1..Len(report) : report[j] # None}}

\* process_node_data, the services part, for one report.
process_node_data(report) ==
    /\ ServiceFrame
    /\ report_count < MaxReports
    /\ services' = InsertServices(clear_node_services(services), report).rows
    /\ service_report' = Some(report)
    /\ report_count' = report_count + 1
    /\ UNCHANGED services_seen

\* GET /api/node/<name>: a request handler reads the node's services.
api_get_node ==
    /\ ServiceFrame
    /\ services_seen' = Some([rows |-> services, report |-> service_report])
    /\ UNCHANGED <<services, service_report, report_count>>

NextServices ==
    \/ \E report \in ServiceReports : process_node_data(report)
    \/ api_get_node

SpecServices == Init /\ [][NextServices]_vars

\* C28: whatever a request handler reads of a node's services is the whole
\* service list of the report applied last: never an empty list or a part
\* of the list while that report names more services.
C28_ServicesReplacedAsOne ==
    (services_seen # None /\ services_seen[1].report # None) =>
        services_seen[1].rows = ReportedServices(services_seen[1].report[1])

(***************************************************************************)
(* SETTINGS (app.py api_update_settings, database.py get_setting /         *)
(* set_setting).                                                           *)
(*                                                                         *)
(* The rows max_depth, auto_scan and poll_interval of the settings table,  *)
(* whose values are text, and the interval of the scheduler's network_scan *)
(* job.  api_update_settings is their only writer.  The handler also       *)
(* writes starting_node and show_tunnels, rows of their own that the code  *)
(* below never reads.  A JSON value is an integer, a number with a         *)
(* fraction (kept in tenths), a string (a sequence of characters) or null. *)
(***************************************************************************)

\* Largest number of POST /api/settings requests.
MaxSettingsUpdates == 2

\* What the settings code leaves alone.
SettingsFrame ==
    UNCHANGED <<now, scanVars, iperfVars, pingVars, linkVars, nodeVars,
                crawlVars, probeVars, qualityVars, upsertVars, serviceVars, runVars>>

DigitChars == <<"0", "1", "2", "3", "4", "5", "6", "7", "8", "9">>

IsDigit(c) == \E d \in 1..10 : DigitChars[d] = c

DigitValue(c) == (CHOOSE d \in 1..10 : DigitChars[d] = c) - 1

\* str(n) of an integer, as a sequence of characters.
RECURSIVE Str(_)
Str(n) ==
    IF n < 0 THEN <<"-">> \o Str(0 - n)
    ELSE IF n < 10 THEN <<DigitChars[n + 1]>>
    ELSE Append(Str(n \div 10), DigitChars[(n % 10) + 1])

\* The value of a non-empty sequence of digits.
RECURSIVE DigitsValue(_)
DigitsValue(chars) ==
    IF Len(chars) = 1 THEN DigitValue(chars[1])
    ELSE 10 * DigitsValue(SubSeq(chars, 1, Len(chars) - 1))
         + DigitValue(chars[Len(chars)])

AllDigits(chars) == chars # <<>> /\ \A i \in 1..Len(chars) : IsDigit(chars[i])

\* int(text): an optional sign and digits; None stands for ValueError.
ParseInt(chars) ==
    IF AllDigits(chars) THEN Some(DigitsValue(chars))
    ELSE IF chars # <<>> /\ chars[1] \in {"-", "+"} /\ AllDigits(Tail(chars))
         THEN Some(IF chars[1] = "-" THEN 0 - DigitsValue(Tail(chars))
                   ELSE DigitsValue(Tail(chars)))
         ELSE None

\* int(x) of a number with a fraction: truncation towards zero.
Truncate(tenths) ==
    IF tenths >= 0 THEN tenths \div 10 ELSE 0 - ((0 - tenths) \div 10)

\* int(value) of a JSON value; None stands for ValueError or TypeError.
IntOf(value) ==
    CASE value.kind = "int" -> Some(value.int)
      [] value.kind = "float" -> Some(Truncate(value.tenths))
      [] value.kind = "str" -> ParseInt(value.chars)
      [] value.kind = "null" -> None

\* Faulty variant of Clamp: only the upper limit is applied.
ClampAbove(lo, hi, v) == IF v > hi THEN hi ELSE v

\* max(lo, min(hi, v))
Clamp(lo, hi, v) ==
    LET capped == IF v < hi THEN v ELSE hi
    IN IF lo > capped THEN lo ELSE capped

\* The JSON values a request may give for max_depth or poll_interval.
NumberInputs ==
    {[kind |-> "int", int |-> v] : v \in {0, 10, 21, 601}}
      \cup {[kind |-> "float", tenths |-> t] : t \in {209}}
      \cup {[kind |-> "str", chars |-> c] : c \in {<<"2", "5">>, <<"a">>}}
      \cup {[kind |-> "null"]}

\* The request bodies: each key absent (None) or present.
SettingsRequests ==
    [max_depth : {None} \cup {Some(v) : v \in NumberInputs},
     auto_scan : {None, Some(TRUE), Some(FALSE)},
     poll_interval : {None} \cup {Some(v) : v \in NumberInputs}]

\* get_setting(key, default): the stored text, or the default.
get_setting(rows, key, default) ==
    IF rows[key] = None THEN default ELSE rows[key][1]

\* set_setting(key, value)
set_setting(rows, key, value) == [rows EXCEPT ![key] = Some(value)]

\* The state the handler works on: the rows, the job, and whether a
\* statement has raised (the remaining statements are then skipped).
\* `if 'max_depth' in data`
AfterMaxDepth(s, data) ==
    IF data.max_depth = None THEN s
    ELSE LET v == IntOf(data.max_depth[1])
         IN IF v = None THEN [s EXCEPT !.raised = TRUE]
            ELSE [s EXCEPT !.rows =
                     set_setting(s.rows, "max_depth", Str(Clamp(1, 20, v[1])))]

\* `if 'auto_scan' in data`: the row, then the job is added (if there is
\* none) or removed.
AfterAutoScan(s, data) ==
    IF s.raised \/ data.auto_scan = None THEN s
    ELSE LET rows == set_setting(s.rows, "auto_scan",
                                 IF data.auto_scan[1] THEN <<"true">> ELSE <<"false">>)
         IN IF data.auto_scan[1]
            THEN IF s.job = None
                 THEN [s EXCEPT !.rows = rows,
                                !.job = ParseInt(get_setting(rows, "poll_interval",
                                                             Str(POLL_INTERVAL)))]
                 ELSE [s EXCEPT !.rows = rows]
            ELSE [s EXCEPT !.rows = rows, !.job = None]

\* `if 'poll_interval' in data`: the row, then the job is rescheduled when
\* auto_scan is on.
AfterPollInterval(s, data) ==
    IF s.raised \/ data.poll_interval = None THEN s
    ELSE LET v == IntOf(data.poll_interval[1])
         IN IF v = None THEN [s EXCEPT !.raised = TRUE]
            ELSE LET poll_interval == Clamp(10, 600, v[1])
                     rows == set_setting(s.rows, "poll_interval", Str(poll_interval))
                 IN [s EXCEPT !.rows = rows,
                              !.job = IF get_setting(rows, "auto_scan", <<"true">>) = <<"true">>
                                      THEN Some(poll_interval)
                                      ELSE s.job]

\* POST /api/settings with body data.
api_update_settings(data) ==
    /\ SettingsFrame
    /\ settings_count < MaxSettingsUpdates
    /\ LET start == [rows |-> settings, job |-> scan_job, raised |-> FALSE]
           end == AfterPollInterval(AfterAutoScan(AfterMaxDepth(start, data), data), data)
       IN /\ settings' = end.rows
          /\ scan_job' = end.job
          /\ settings_reply' = IF end.raised THEN "error" ELSE "success"
    /\ settings_request' = Some(data)
    /\ settings_count' = settings_count + 1

NextSettings == \E data \in SettingsRequests : api_update_settings(data)

SpecSettings == Init /\ [][NextSettings]_vars

\* The integer a stored row holds.
Stored(key) == ParseInt(settings[key][1])[1]

\* What the last request asked for key, as an integer: None when the key
\* was absent or its value was not a number.
Asked(key) ==
    IF settings_request = None \/ settings_request[1][key] = None THEN None
    ELSE IntOf(settings_request[1][key][1])

\* C30: the stored max_depth is always within 1..20 and the stored
\* poll_interval within 10..600; a request that succeeds with a numeric
\* value for one of them leaves the nearest value of that range stored.
C30_SettingsClamped ==
    /\ settings["max_depth"] # None => Stored("max_depth") \in 1..20
    /\ settings["poll_interval"] # None => Stored("poll_interval") \in 10..600
    /\ (settings_reply = "success" /\ Asked("max_depth") # None) =>
          /\ settings["max_depth"] # None
          /\ Asked("max_depth")[1] < 1 => Stored("max_depth") = 1
          /\ Asked("max_depth")[1] > 20 => Stored("max_depth") = 20
          /\ Asked("max_depth")[1] \in 1..20 =>
                Stored("max_depth") = Asked("max_depth")[1]
    /\ (settings_reply = "success" /\ Asked("poll_interval") # None) =>
          /\ settings["poll_interval"] # None
          /\ Asked("poll_interval")[1] < 10 => Stored("poll_interval") = 10
          /\ Asked("poll_interval")[1] > 600 => Stored("poll_interval") = 600
          /\ Asked("poll_interval")[1] \in 10..600 =>
                Stored("poll_interval") = Asked("poll_interval")[1]

\* C30 witness: a request asked for max_depth 0 and poll_interval 601 and
\* succeeded; 1 and 600 are stored.
C30_Witness ==
    /\ settings_reply = "success"
    /\ Asked("max_depth") = Some(0)
    /\ Asked("poll_interval") = Some(601)
    /\ settings["max_depth"] = Some(<<"1">>)
    /\ settings["poll_interval"] = Some(<<"6", "0", "0">>)

\* The addresses already fetched in this run, normalized.
FetchedUrls == {LowerUrl(fetch_log[i].url) : i \in 1..Len(fetch_log)}

\* C16: within one run no address is fetched twice (addresses compared
\* case-insensitively), and the expansion loop appends no address that is
\* already in the visited set.
C16_VisitedNeverRequeued ==
    /\ [](\A i, j \in 1..Len(fetch_log) :
            i # j => LowerUrl(fetch_log[i].url) # LowerUrl(fetch_log[j].url))
    /\ [][crawlPc = "fetching" =>
            \A i \in (Len(queue) + 1)..Len(queue') :
               LowerUrl(queue'[i].url) \notin visited_urls]_vars

\* C16 witness: a finished run over a mesh with a cycle (charlie and delta
\* list each other) in which bravo is reported by alpha as "b" and by
\* charlie as "B", and four addresses were fetched.
C16_Witness ==
    /\ crawlPc = "returned"
    /\ {1, 2, 6, 7, 8} \subseteq network[1].edges
    /\ network[1].super.node = ""
    /\ network[1].fault.kind = "none"
    /\ max_depth = 2
    /\ Len(fetch_log) = 4

\* The saved trackers of a report have a good row observed now.
ReportLinksStored(data, rows, show_tunnels) ==
    \A i \in 1..Len(data.trackers) :
       LinkStored(data.trackers[i].type, show_tunnels) =>
          LET row == rows[<<Lower(data.node), Lower(data.trackers[i].hostname)>>]
          IN  /\ row # None
              /\ row[1].status = "good"
              /\ row[1].last_seen = now

Scenario3 ==
    /\ crawlPc = "returned"
    /\ network[1].super.node = "charlie"
    /\ "charlie" \in visited_nodes
    /\ 6 \in network[1].edges
    /\ 5 \notin network[1].edges

RECURSIVE WithinHops(_, _, _)
\* The hosts at most n routable tracker hops from the start host.
WithinHops(net, start_host, n) ==
    IF n = 0
    THEN {Lower(start_host)}
    ELSE LET near == WithinHops(net, start_host, n - 1)
         IN  near \cup
             {Lower(TrackersOf(net, NodeAt(h))[i].canonical_ip) :
                <<h, i>> \in
                  {p \in near \X TrackerIds :
                     /\ p[2] <= Len(TrackersOf(net, NodeAt(p[1])))
                     /\ TrackersOf(net, NodeAt(p[1]))[p[2]].routable}}

\* C19: every request of a run is for an address queued at a depth of at
\* most max_depth, so for a host within max_depth routable hops of the
\* start, and max_depth_reached never exceeds max_depth.
C19_DepthBounded ==
    /\ max_depth_reached <= max_depth
    /\ \A i \in 1..Len(fetch_log) :
          /\ fetch_log[i].depth <= max_depth
          /\ Lower(fetch_log[i].url.host) \in
                WithinHops(network[1], fetch_log[1].url.host, max_depth)

\* C19 witness: a finished run that fetched a node at depth max_depth whose
\* report has a routable tracker for an address that was never requested.
C19_Witness ==
    /\ crawlPc = "returned"
    /\ max_depth_reached = max_depth
    /\ \E i \in 1..Len(fetch_log) :
          /\ fetch_log[i].depth = max_depth
          /\ fetch_node_info(network[1], fetch_log[i].url) # None
          /\ \E j \in 1..Len(fetch_node_info(network[1], fetch_log[i].url)[1].trackers) :
                LET tracker == fetch_node_info(network[1], fetch_log[i].url)[1].trackers[j]
                IN  /\ tracker.routable
                    /\ LowerUrl(build_sysinfo_url(tracker.canonical_ip)) \notin visited_urls

\* Scenario 1: the store was empty, alpha reports the single neighbour
\* bravo (RF, quality 90, routable), bravo answers and reports nobody.
Scenario1 ==
    /\ crawlPc = "returned"
    /\ network[1].edges = {1}
    /\ network[1].super.node = ""
    /\ network[1].fault.kind = "none"

\* C20: scenario 1 returns nodes_found = 2, links_found = 1 and the events
\* node_discovered for alpha, link_new for alpha->bravo and node_discovered
\* for bravo.
C20_ScenarioOne ==
    Scenario1 =>
       /\ nodes_found = 2
       /\ links_found = 1
       /\ all_events =
            << [type |-> "node_discovered", node |-> "alpha"],
               [type |-> "link_new", node |-> "alpha", target |-> "bravo",
                quality |-> 90],
               [type |-> "node_discovered", node |-> "bravo"] >>

\* C20 witness: scenario 1 is over after the two requests.
C20_Witness ==
    /\ Scenario1
    /\ Len(fetch_log) = 2
    /\ nodes["alpha"] # None
    /\ nodes["bravo"] # None
    /\ links[<<"alpha", "bravo">>] # None


\* The step of discover_network that processes a fetched report with a node
\* name.
FetchedStep == crawlPc = "fetching" /\ crawlPc' = "loop" /\ errors' = errors

\* C21: on every processed report, each tracker with a hostname, the
\* routable mark and a canonical address is a frontier candidate whatever its
\* link type and whatever the tunnel visibility: it is counted in links_found
\* and, when the node is expanded and the address is not yet visited, it is
\* appended to the frontier one hop deeper.  The link of a tunnel-type
\* tracker is stored when tunnel visibility is on and left untouched when it
\* is off.
C21_TunnelsGateStorageOnly ==
    [][FetchedStep =>
         LET data == fetch_node_info(network[1], cur[1].url)[1]
             node_name == Lower(data.node)
             raw == data.trackers
             Candidate(i) == /\ Lower(raw[i].hostname) # ""
                             /\ raw[i].routable
                             /\ raw[i].canonical_ip # ""
             OnlyTunnel(i) == /\ Lower(raw[i].hostname) # ""
                              /\ is_tunnel(raw[i].type)
                              /\ \A j \in 1..Len(raw) :
                                    Lower(raw[j].hostname) = Lower(raw[i].hostname)
                                       => is_tunnel(raw[j].type)
         IN  /\ links_found' - links_found =
                   Cardinality({i \in 1..Len(raw) : Candidate(i)})
             /\ (cur[1].depth < max_depth /\ ~is_supernode(data)) =>
                   \A i \in 1..Len(raw) :
                      (/\ Candidate(i)
                       /\ LowerUrl(build_sysinfo_url(raw[i].canonical_ip))
                             \notin visited_urls)
                      => \E j \in (Len(queue) + 1)..Len(queue') :
                            queue'[j] = [url |-> build_sysinfo_url(raw[i].canonical_ip),
                                         depth |-> cur[1].depth + 1]
             /\ \A i \in 1..Len(raw) :
                   OnlyTunnel(i) =>
                      LET k == <<node_name, Lower(raw[i].hostname)>>
                      IN  IF network[1].show_tunnels
                          THEN links'[k] # None /\ links'[k][1].last_seen = now
                          ELSE links'[k] = links[k]]_vars

\* C39: on every processed report links_found grows by the number of
\* upsert_link calls made for it: a tracker counts if and only if its link
\* is stored.
C39_LinksFoundCountsStored ==
    [][FetchedStep =>
         LET raw == fetch_node_info(network[1], cur[1].url)[1].trackers
             Persisted(i) == /\ Lower(raw[i].hostname) # ""
                          /\ LinkStored(raw[i].type, network[1].show_tunnels)
         IN  links_found' - links_found =
                Cardinality({i \in 1..Len(raw) : Persisted(i)})]_vars

\* C21 witness: tunnel visibility is off, bravo is reported only by charlie
\* over a WIREGUARD tracker, and the finished run has fetched bravo without
\* storing the charlie->bravo link.
C21_Witness ==
    /\ crawlPc = "returned"
    /\ ~network[1].show_tunnels
    /\ {2, 7} \subseteq network[1].edges
    /\ 1 \notin network[1].edges
    /\ nodes["bravo"] # None
    /\ links[<<"charlie", "bravo">>] = None
    /\ links[<<"alpha", "charlie">>] # None


\* The fetch of the current address gave nothing usable: fetch_node_info
\* returned None, or the report has no node name.
FetchUnusable ==
    /\ crawlPc = "fetching"
    /\ \/ fetch_node_info(network[1], cur[1].url) = None
       \/ Lower(fetch_node_info(network[1], cur[1].url)[1].node) = ""

\* The addresses a run can be given or can be told of, as compared by the
\* visited test.
CrawlUrls ==
    {LowerUrl(normalize_start_url(setting)) : setting \in StartSettings}
       \cup UNION {{LowerUrl(build_sysinfo_url(Trackers[n][i].canonical_ip)) :
                       i \in 1..Len(Trackers[n])} : n \in NodeNames}

\* More than the longest frontier: the start, and for each fetch at most
\* one entry per tracker.
FrontierWeight == 2 + Cardinality(TrackerIds) * Cardinality(CrawlUrls)

\* What a running crawl still has to do, as a number: the addresses not yet
\* visited and the fetch in progress weigh more than any frontier.
WorkLeft ==
    (2 * Cardinality(CrawlUrls \ visited_urls)
       + (IF crawlPc = "fetching" THEN 1 ELSE 0)) * FrontierWeight
    + (IF crawlPc = "returned" THEN 0 ELSE 1 + Len(queue))

\* The conditions under which the while loop takes its next step: the
\* frontier is empty (return) or not (pop), or the fetch in flight ends in
\* one of its three ways.
CrawlCanStep ==
    \/ crawlPc = "loop" /\ queue = << >>
    \/ crawlPc = "loop" /\ queue # << >>
    \/ /\ crawlPc = "fetching"
       /\ cur # None
       /\ LET data == fetch_node_info(network[1], cur[1].url)
          IN  \/ data = None
              \/ data # None /\ Lower(data[1].node) = ""
              \/ data # None /\ Lower(data[1].node) # ""

Cyclic(net) ==
    \E n, m \in NodeNames :
        /\ n # m
        /\ \E i \in 1..Len(Trackers[n]) :
              /\ Trackers[n][i].id \in net.edges
              /\ Trackers[n][i].routable
              /\ NodeAt(Trackers[n][i].canonical_ip) = m
        /\ \E j \in 1..Len(Trackers[m]) :
              /\ Trackers[m][j].id \in net.edges
              /\ Trackers[m][j].routable
              /\ NodeAt(Trackers[m][j].canonical_ip) = n

\* C34: discover_network terminates on every mesh, cyclic ones and meshes
\* where no host answers included: a running crawl always has a next step,
\* each of its steps lowers the natural number WorkLeft, and it returns
\* only with an empty frontier.
C34_CrawlTerminates ==
    /\ [](crawlPc \in {"loop", "fetching"} => CrawlCanStep /\ WorkLeft \in Nat)
    /\ [][(crawlPc \in {"loop", "fetching"}) => WorkLeft' < WorkLeft]_vars
    /\ [][crawlPc' = "returned" => queue' = << >>]_vars

\* C34 witness: a run over a mesh in which alpha and bravo list each other
\* and charlie and delta list each other has returned after fetching all
\* four nodes.
C34_Witness ==
    /\ crawlPc = "returned"
    /\ Cyclic(network[1])
    /\ {4, 1, 6, 8} \subseteq network[1].edges
    /\ Len(fetch_log) >= 4
    /\ queue = << >>

\* C34 witness for a mesh where every fetch fails: the run has returned
\* with one error and nothing stored.
C34_WitnessUnreachable ==
    /\ crawlPc = "returned"
    /\ network[1].fault.kind = "unreachable"
    /\ Len(errors) = 1
    /\ Len(fetch_log) = 1

ReportEdges == SUBSET {1, 2}

\* process_links for a report of node source_node that carries the trackers
\* in edges: per saved tracker the event for the row as it is found, then
\* upsert_link.  No reconciliation is in progress during a crawl.
process_links(source_node, edges) ==
    /\ recPc = "idle"
    /\ LET Present(tracker) == tracker.id \in edges
           trackers == Named(SelectSeq(Trackers[source_node], Present))
       IN  /\ all_events' = LinkEventsFrom(trackers, 1, source_node, links, FALSE)
           /\ links' = LinksAfterReport(trackers, source_node, links, FALSE, now)
           /\ dropped_at' = [k \in StoreKeys |->
                               IF links'[k] # links[k] THEN None
                               ELSE dropped_at[k]]
    /\ UNCHANGED <<now, scanVars, iperfVars, pingVars, recPc, dropped_links,
                   nodeVars, network, max_depth, crawlPc, cur, visited_urls,
                   visited_nodes, queue, nodes_found, links_found,
                   max_depth_reached, errors, fetch_log, probeVars,
                   qualityVars, upsertVars, serviceVars, settingVars, runVars>>

NextRestore ==
    \/ \E edges \in ReportEdges : process_links("alpha", edges)
    \/ get_links_to_drop
    \/ mark_stale_links_dropped
    \/ remove_old_dropped_links
    \/ \E d \in LinkTickSteps : TickLinks(d)

SpecRestore == Init /\ [][NextRestore]_vars

\* The run's events hold a link_restored event for link k.
RestoredEventFor(events, k) ==
    \E i \in 1..Len(events) :
        /\ events[i].type = "link_restored"
        /\ events[i].node = k[1]
        /\ events[i].target = k[2]

\* C36, the dropped half: an observation that moves a link from dropped to
\* good puts a link_restored event for it into the run's events.
C36_DroppedRestoredHasEvent ==
    [][\A k \in StoreKeys :
         (StatusOf(links[k]) = "dropped" /\ StatusOf(links'[k]) = "good")
            => RestoredEventFor(all_events', k)]_vars

\* C36: every observation that moves a link from dropped or from removed
\* back to good puts a link_restored event for that link into the run's
\* events.
C36_RestoredHasEvent ==
    [][\A k \in StoreKeys :
         (StatusOf(links[k]) \in {"dropped", "removed"} /\ StatusOf(links'[k]) = "good")
            => RestoredEventFor(all_events', k)]_vars

(***************************************************************************)
(* ONE SCAN FROM CRAWL TO RECONCILIATION (scanner.py run_scan).            *)
(*                                                                         *)
(* run_scan calls discover_network and then, with no blocking call in      *)
(* between, update_link_statuses and update_node_statuses.  The crawl      *)
(* blocks in every fetch, so time passes between its reports; the          *)
(* reconciliation is one step.                                             *)
(***************************************************************************)

\* What the steps of a scan leave alone.
RunFrame == UNCHANGED <<scanVars, iperfVars, pingVars, crawlVars, probeVars, qualityVars, upsertVars, serviceVars, settingVars>>

\* run_scan calls discover_network.
run_scan_begin ==
    /\ RunFrame
    /\ runPc = "idle"
    /\ runPc' = "crawling"
    /\ observed' = [nodes |-> {}, links |-> {}]
    /\ UNCHANGED <<now, linkVars, nodeVars>>

\* The crawl fetches the report of node n, which lists targets: the node
\* row and the link rows are upserted with the time of the call.
run_scan_report(n, targets) ==
    /\ RunFrame
    /\ runPc = "crawling"
    /\ nodes' = [nodes EXCEPT ![n] = NodeRowAfterUpsert(now, FALSE)]
    /\ links' = [k \in StoreKeys |->
                   IF k[1] = n /\ k[2] \in targets
                   THEN RowAfterUpsert(links[k], now)
                   ELSE links[k]]
    /\ dropped_at' = [k \in StoreKeys |->
                        IF k[1] = n /\ k[2] \in targets THEN None
                        ELSE dropped_at[k]]
    /\ observed' = [nodes |-> observed.nodes \cup {n},
                    links |-> observed.links \cup {<<n, t>> : t \in targets}]
    /\ UNCHANGED <<now, recPc, dropped_links, nodePc, inactive_nodes, runPc>>

\* The link rows after mark_stale_links_dropped and
\* remove_old_dropped_links.
LinksAfterSweep(rows) ==
    LET marked == [k \in StoreKeys |->
                     IF rows[k] # None /\ StaleGood(rows[k][1], LINK_TIMEOUT)
                     THEN Some([rows[k][1] EXCEPT !.status = "dropped"])
                     ELSE rows[k]]
    IN  [k \in StoreKeys |->
           IF marked[k] # None /\ OldDropped(marked[k][1], LINK_REMOVE_AFTER)
           THEN Some([marked[k][1] EXCEPT !.status = "removed"])
           ELSE marked[k]]

\* discover_network has returned: update_link_statuses, then
\* update_node_statuses, each with cutoff now - LINK_TIMEOUT.
run_scan_reconcile ==
    /\ RunFrame
    /\ runPc = "crawling"
    /\ dropped_links' =
         {k \in StoreKeys : links[k] # None /\ StaleGood(links[k][1], LINK_TIMEOUT)}
    /\ links' = LinksAfterSweep(links)
    /\ dropped_at' = [k \in StoreKeys |->
                        IF k \in dropped_links' THEN Some(now)
                        ELSE IF StatusOf(links'[k]) = "removed" THEN None
                        ELSE dropped_at[k]]
    /\ inactive_nodes' =
         {n \in NodeNames : nodes[n] # None /\ StaleActive(nodes[n][1], LINK_TIMEOUT)}
    /\ nodes' = [n \in NodeNames |->
                   IF n \in inactive_nodes'
                   THEN Some([nodes[n][1] EXCEPT !.is_active = FALSE])
                   ELSE nodes[n]]
    /\ runPc' = "idle"
    /\ UNCHANGED <<now, recPc, nodePc, observed>>

\* Time passes: between two fetches of a crawl, and between two scans.
TickRun(d) ==
    /\ now + d <= MaxNodeTime
    /\ now' = now + d
    /\ UNCHANGED <<scanVars, iperfVars, pingVars, linkVars, nodeVars, crawlVars, probeVars, qualityVars, upsertVars, serviceVars, settingVars, runVars>>

NextRun ==
    \/ run_scan_begin
    \/ \E n \in ReportingNodes :
         \E targets \in SUBSET (ReportingNodes \ {n}) : run_scan_report(n, targets)
    \/ run_scan_reconcile
    \/ \E d \in LinkTickSteps : TickRun(d)

SpecRun == Init /\ [][NextRun]_vars

\* C38: a node or link stored by a scan's crawl is not marked inactive or
\* dropped by the reconciliation of that scan, however much time the crawl
\* took.
C38_ObservedSurvivesOwnScan ==
    [][run_scan_reconcile =>
         /\ \A n \in observed.nodes : nodes'[n][1].is_active
         /\ \A k \in observed.links : StatusOf(links'[k]) = "good"]_vars

(***************************************************************************)
(* STARTUP AND SETTINGS (app.py start_scheduler, api_update_settings).     *)
(*                                                                         *)
(* The settings rows are in the database and outlive the process; the      *)
(* scheduler's jobs are in memory and are set up again by start_scheduler  *)
(* whenever the process starts.                                            *)
(***************************************************************************)

\* The process is started again on the store an earlier run has left:
\* start_scheduler adds the network_scan job with config.POLL_INTERVAL and
\* reads no setting.
start_scheduler ==
    /\ SettingsFrame
    /\ scan_job' = Some(POLL_INTERVAL)
    /\ settings_request' = None
    /\ settings_reply' = "none"
    /\ UNCHANGED <<settings, settings_count>>

NextStartup ==
    \/ \E data \in SettingsRequests : api_update_settings(data)
    \/ start_scheduler

SpecStartup == Init /\ [][NextStartup]_vars

\* C40: in every state after startup and after any settings updates the
\* network_scan job is scheduled if and only if the effective auto_scan
\* setting (the stored value, "true" when there is none) is true.
C40_JobIffAutoScan ==
    (scan_job # None) <=> (get_setting(settings, "auto_scan", <<"true">>) = <<"true">>)

=============================================================================
